---- MODULE Spec2Model ----
(***************************************************************************)
(* Garrett MICRO II emulator: CPU core, banked memory, I/O devices and the *)
(* emulator facade, modelled as a state machine.  Each Python method is an *)
(* operator from a machine state (a record of every field of the CPU, the  *)
(* memory, the devices and the facade) to the state it leaves behind.      *)
(***************************************************************************)
EXTENDS Integers, Sequences, FiniteSets, TLC

VARIABLES
    ac, pc, ir, mar, mdr, msr,            \* MICRO2_CPU registers
    overflow, running, halted,            \* MICRO2_CPU status flags
    data_switches, run_stop,              \* MICRO2_CPU front panel state
    memory_banks, current_bank, num_banks,\* MICRO2_Memory
    flag,                                 \* MICRO2_IODevice.flag of devices 1..5
    input_queue,                          \* ConsoleInputDevice
    output_buffer,                        \* ConsoleOutputDevice
    switch_value,                         \* DataSwitchDevice
    display_value,                        \* LEDDisplayDevice
    tape_data, read_position, punch_data, \* PaperTapeDevice
    breakpoints,                          \* MICRO2_Emulator
    labels, errors,                       \* MICRO2_Assembler
    source_code, machine_code,            \* the last assemble call and its result
    disasm,                               \* what the last disassemble call returned
    analysis,                             \* what the last analyze_program call returned
    run_pc, instruction_count, max_instructions, \* the run_program call in progress
    running_program, run_stop_var,        \* MICRO2_GUI
    main_at,                              \* where the thread of the GUI's handlers is
    workers,                              \* the threads that call run_program
    ret,                                  \* what the last call returned
    calls                                 \* number of facade calls made so far

vars == <<ac, pc, ir, mar, mdr, msr, overflow, running, halted,
          data_switches, run_stop, memory_banks, current_bank, num_banks,
          flag, input_queue, output_buffer, switch_value, display_value,
          tape_data, read_position, punch_data, breakpoints,
          labels, errors, source_code, machine_code, disasm, analysis,
          run_pc, instruction_count, max_instructions,
          running_program, run_stop_var, main_at, workers, ret, calls>>

----------------------------------------------------------------------------
(* Python integer operators.  Python integers are unbounded and the        *)
(* bitwise operators treat a negative left operand as an infinite two's    *)
(* complement number.                                                      *)

RECURSIVE AndNat(_, _)
AndNat(x, y) ==
    IF x = 0 \/ y = 0 THEN 0
    ELSE (x % 2) * (y % 2) + 2 * AndNat(x \div 2, y \div 2)

RECURSIVE OrNat(_, _)
OrNat(x, y) ==
    IF x = 0 THEN y
    ELSE IF y = 0 THEN x
    ELSE (IF x % 2 = 1 \/ y % 2 = 1 THEN 1 ELSE 0) + 2 * OrNat(x \div 2, y \div 2)

\* x & y for a mask 0 <= y < 2^16 and any integer x
And(x, y) == AndNat(x % 65536, y)

\* x | y for x, y >= 0
Or(x, y) == OrNat(x, y)

\* ~x
Invert(x) == -x - 1

\* x >> n and x << n for x >= 0
Shr(x, n) == x \div (2 ^ n)
Shl(x, n) == x * (2 ^ n)

----------------------------------------------------------------------------
(* The machine state as one record.                                        *)

St ==
    [ac |-> ac, pc |-> pc, ir |-> ir, mar |-> mar, mdr |-> mdr, msr |-> msr,
     overflow |-> overflow, running |-> running, halted |-> halted,
     data_switches |-> data_switches, run_stop |-> run_stop,
     memory_banks |-> memory_banks, current_bank |-> current_bank,
     num_banks |-> num_banks,
     flag |-> flag, input_queue |-> input_queue,
     output_buffer |-> output_buffer, switch_value |-> switch_value,
     display_value |-> display_value, tape_data |-> tape_data,
     read_position |-> read_position, punch_data |-> punch_data,
     breakpoints |-> breakpoints,
     labels |-> labels, errors |-> errors]

Commit(t) ==
    /\ ac' = t.ac /\ pc' = t.pc /\ ir' = t.ir /\ mar' = t.mar
    /\ mdr' = t.mdr /\ msr' = t.msr
    /\ overflow' = t.overflow /\ running' = t.running /\ halted' = t.halted
    /\ data_switches' = t.data_switches /\ run_stop' = t.run_stop
    /\ memory_banks' = t.memory_banks /\ current_bank' = t.current_bank
    /\ num_banks' = t.num_banks
    /\ flag' = t.flag /\ input_queue' = t.input_queue
    /\ output_buffer' = t.output_buffer /\ switch_value' = t.switch_value
    /\ display_value' = t.display_value /\ tape_data' = t.tape_data
    /\ read_position' = t.read_position /\ punch_data' = t.punch_data
    /\ breakpoints' = t.breakpoints
    /\ labels' = t.labels /\ errors' = t.errors

----------------------------------------------------------------------------
(* MICRO2_Memory                                                           *)

Banks == 0..7
Addrs == 0..255

set_num_banks(s, n) ==
    [s EXCEPT !.num_banks = IF n < 1 THEN 1 ELSE IF n > 8 THEN 8 ELSE n]

\* set_bank without its range check
set_bank_unchecked(s, bank_num) == [s EXCEPT !.current_bank = bank_num]

\* set_bank wrapping the request into the active banks
set_bank_modulo(s, bank_num) ==
    [s EXCEPT !.current_bank = bank_num % s.num_banks]

set_bank(s, bank_num) ==
    IF 0 <= bank_num /\ bank_num < s.num_banks
    THEN [s EXCEPT !.current_bank = bank_num]
    ELSE s

read(s, address) == s.memory_banks[s.current_bank][And(address, 255)]

\* write that ignores the bank selection and always stores into bank 0
write_bank_zero(s, address, data) ==
    [s EXCEPT !.memory_banks[0][And(address, 255)] = And(data, 255)]

write(s, address, data) ==
    [s EXCEPT !.memory_banks[s.current_bank][And(address, 255)] = And(data, 255)]

RECURSIVE load_from(_, _, _, _)
load_from(s, program_data, start_address, i) ==
    IF i > Len(program_data) THEN s
    ELSE load_from(write(s, And(start_address + (i - 1), 255),
                         And(program_data[i], 255)),
                   program_data, start_address, i + 1)

load_program(s, program_data, start_address) ==
    load_from(s, program_data, And(start_address, 255), 1)

memory_reset(s) ==
    [s EXCEPT !.memory_banks = [b \in Banks |-> [a \in Addrs |-> 0]],
              !.current_bank = 0]

\* write(i, 0) for every i in range(256): each address of the current bank
\* is its own mask and is left holding the masked 0
clear_memory(s) ==
    [s EXCEPT !.memory_banks[s.current_bank] = [a \in Addrs |-> And(0, 255)]]

----------------------------------------------------------------------------
(* MICRO2_IODevice and its subclasses; MICRO2_IOSystem.  Devices 1..5 are  *)
(* installed, slots 0, 6 and 7 hold None.                                  *)

Devices == 1..5
max_buffer_size == 1000

\* ConsoleInputDevice.queue_input; value is a string (the sequence of the
\* code points of its characters) or an integer
queue_input(s, value) ==
    [s EXCEPT !.input_queue =
                  IF value.is_str
                  THEN @ \o [i \in 1..Len(value.v) |-> And(value.v[i], 255)]
                  ELSE Append(@, And(value.v, 255)),
              !.flag[1] = TRUE]

\* the word a device's input_data returns
device_input_value(s, d) ==
    CASE d = 1 -> IF s.input_queue # <<>> THEN Head(s.input_queue) ELSE 0
      [] d = 3 -> s.switch_value
      [] d = 5 -> IF s.read_position < Len(s.tape_data)
                  THEN s.tape_data[s.read_position + 1] ELSE 0
      [] OTHER -> 0

\* the state a device's input_data leaves
device_input_state(s, d) ==
    CASE d = 1 ->
           IF s.input_queue # <<>>
           THEN [s EXCEPT !.input_queue = Tail(@),
                          !.flag[1] = IF Tail(s.input_queue) = <<>>
                                      THEN FALSE ELSE @]
           ELSE [s EXCEPT !.flag[1] = FALSE]
      [] d = 5 ->
           IF s.read_position < Len(s.tape_data)
           THEN [s EXCEPT !.read_position = @ + 1,
                          !.flag[5] = (s.read_position + 1 < Len(s.tape_data))]
           ELSE [s EXCEPT !.flag[5] = FALSE]
      [] OTHER -> s

\* the device's output_data
device_output(s, d, data) ==
    CASE d = 2 ->
           LET buf == Append(s.output_buffer, And(data, 255))
           IN [s EXCEPT !.output_buffer =
                   IF Len(buf) > max_buffer_size THEN Tail(buf) ELSE buf]
      [] d = 4 -> [s EXCEPT !.display_value = And(data, 255)]
      [] d = 5 -> [s EXCEPT !.punch_data = Append(@, And(data, 255))]
      [] OTHER -> s

io_input_value(s, device_id) ==
    IF device_id \in Devices THEN device_input_value(s, device_id) ELSE 0

io_input_state(s, device_id) ==
    IF device_id \in Devices THEN device_input_state(s, device_id) ELSE s

io_output_data(s, device_id, data) ==
    IF device_id \in Devices THEN device_output(s, device_id, data) ELSE s

check_flag(s, device_id) ==
    IF device_id \in Devices THEN s.flag[device_id] ELSE FALSE

reset_all_devices(s) == [s EXCEPT !.flag = [d \in Devices |-> FALSE]]

io_set_data_switches(s, value) == [s EXCEPT !.switch_value = And(value, 255)]

load_tape(s, data) ==
    [s EXCEPT !.tape_data = [i \in 1..Len(data) |-> And(data[i], 255)],
              !.read_position = 0,
              !.flag[5] = (Len(data) > 0)]

----------------------------------------------------------------------------
(* MICRO2_CPU                                                              *)

\* a reset that leaves the data switches as they are set
cpu_reset_keeps_switches(s) ==
    [s EXCEPT !.ac = 0, !.pc = 0, !.ir = 0, !.mar = 0, !.mdr = 0, !.msr = 0,
              !.overflow = FALSE, !.running = FALSE, !.halted = FALSE,
              !.run_stop = FALSE]

cpu_reset(s) ==
    [s EXCEPT !.ac = 0, !.pc = 0, !.ir = 0, !.mar = 0, !.mdr = 0, !.msr = 0,
              !.overflow = FALSE, !.running = FALSE, !.halted = FALSE,
              !.data_switches = 0, !.run_stop = FALSE]

\* direct addressing with the page of the incremented PC
effective_address_incremented_pc(s) ==
    LET indirect_bit == And(Shr(s.ir, 5), 1)
        address == And(s.ir, 31)
    IN IF indirect_bit # 0
       THEN read(s, address)
       ELSE Or(And(s.pc, 224), address)

\* indirect addressing with the pointer taken as a word number in the page
effective_address_paged_pointer(s) ==
    LET indirect_bit == And(Shr(s.ir, 5), 1)
        address == And(s.ir, 31)
    IN IF indirect_bit # 0
       THEN Or(And(s.pc - 1, 224), And(read(s, address), 31))
       ELSE Or(And(s.pc - 1, 224), address)

\* the addressing mode of a memory reference instruction
effective_address(s) ==
    LET indirect_bit == And(Shr(s.ir, 5), 1)
        address == And(s.ir, 31)
    IN IF indirect_bit # 0
       THEN read(s, address)
       ELSE Or(And(s.pc - 1, 224), address)

\* ADD that sets overflow on a carry but never clears it
add_to_ac_sticky(s) ==
    LET data == read(s, s.mar)
        result == s.ac + data
    IN [s EXCEPT !.overflow = (@ \/ result > 255), !.ac = And(result, 255)]

\* ADD, once MAR holds the effective address
add_to_ac(s) ==
    LET data == read(s, s.mar)
        result == s.ac + data
    IN [s EXCEPT !.overflow = (result > 255), !.ac = And(result, 255)]

_execute_memory_reference(s, opcode) ==
    LET indirect_bit == And(Shr(s.ir, 5), 1)
        s1 == IF indirect_bit # 0
              THEN [s EXCEPT !.mdr = effective_address(s)]
              ELSE s
        s2 == [s1 EXCEPT !.mar = And(effective_address(s), 255)]
    IN CASE opcode = 0 -> [s2 EXCEPT !.pc = s2.mar]
         [] opcode = 1 -> write(s2, s2.mar, s2.ac)
         [] opcode = 2 -> add_to_ac(s2)
         [] OTHER -> s2

\* CLR that complements the overflow flag
_clr_flips_overflow(s) == [s EXCEPT !.ac = 0, !.overflow = ~s.overflow]

_clr(s) == [s EXCEPT !.ac = 0, !.overflow = FALSE]

_cmp(s) == [s EXCEPT !.ac = And(Invert(s.ac), 255)]

_rtl(s) ==
    LET carry == And(Shr(s.ac, 7), 1)
    IN [s EXCEPT !.ac = And(Or(Shl(s.ac, 1), carry), 255)]

_rtr(s) ==
    LET carry == And(s.ac, 1)
    IN [s EXCEPT !.ac = And(Or(Shr(s.ac, 1), Shl(carry, 7)), 255)]

_ors(s) == [s EXCEPT !.ac = Or(s.ac, s.data_switches)]

_nop(s) == s

_hlt(s) == [s EXCEPT !.halted = TRUE, !.running = FALSE]

\* SNO that leaves the overflow flag as it found it
_sno_keeps_flag(s) ==
    IF ~s.overflow THEN [s EXCEPT !.pc = And(s.pc + 1, 255)] ELSE s

_sno(s) ==
    LET s1 == IF ~s.overflow THEN [s EXCEPT !.pc = And(s.pc + 1, 255)] ELSE s
    IN [s1 EXCEPT !.overflow = FALSE]

\* SNA that skips when the accumulator is zero
_sna_skips_on_zero(s) ==
    IF s.ac = 0 THEN [s EXCEPT !.pc = And(s.pc + 1, 255)] ELSE s

_sna(s) == IF s.ac # 0 THEN [s EXCEPT !.pc = And(s.pc + 1, 255)] ELSE s

\* SZS testing the sign bit the wrong way round
_szs_inverted(s) ==
    IF And(s.ac, 128) # 0 THEN [s EXCEPT !.pc = And(s.pc + 1, 255)] ELSE s

_szs(s) ==
    IF And(s.ac, 128) = 0 THEN [s EXCEPT !.pc = And(s.pc + 1, 255)] ELSE s

_sfg(s) ==
    LET device_addr == And(s.ir, 7)
    IN IF check_flag(s, device_addr)
       THEN [s EXCEPT !.pc = And(s.pc + 1, 255)]
       ELSE s

\* INP that loads the complemented word instead of OR-ing it in
_inp_overwrites(s) ==
    LET device_addr == And(s.ir, 7)
        data == io_input_value(s, device_addr)
        s1 == io_input_state(s, device_addr)
    IN [s1 EXCEPT !.ac = And(Invert(data), 255)]

_inp(s) ==
    LET device_addr == And(s.ir, 7)
        data == io_input_value(s, device_addr)
        s1 == io_input_state(s, device_addr)
    IN [s1 EXCEPT !.ac = Or(s.ac, And(Invert(data), 255))]

_out(s) ==
    LET device_addr == And(s.ir, 7)
    IN IF device_addr = 0
       THEN LET s1 == [s EXCEPT !.msr = And(s.ac, 15)]
            IN set_bank(s1, s1.msr)
       ELSE io_output_data(s, device_addr, s.ac)

\* the dispatch table: key -> handler
instructions ==
    [k \in {0, 1, 2, 192, 193, 194, 195, 196, 197, 198, 200, 201, 202,
            26, 28, 30} |->
        CASE k = 0 -> "_jmp" [] k = 1 -> "_str" [] k = 2 -> "_add"
          [] k = 192 -> "_clr" [] k = 193 -> "_cmp" [] k = 194 -> "_rtl"
          [] k = 195 -> "_rtr" [] k = 196 -> "_ors" [] k = 197 -> "_nop"
          [] k = 198 -> "_hlt"
          [] k = 200 -> "_sno" [] k = 201 -> "_sna" [] k = 202 -> "_szs"
          [] k = 26 -> "_sfg" [] k = 28 -> "_inp" [] k = 30 -> "_out"]

\* calling the handler found in the table
call(handler, s) ==
    CASE handler = "_clr" -> _clr(s) [] handler = "_cmp" -> _cmp(s)
      [] handler = "_rtl" -> _rtl(s) [] handler = "_rtr" -> _rtr(s)
      [] handler = "_ors" -> _ors(s) [] handler = "_nop" -> _nop(s)
      [] handler = "_hlt" -> _hlt(s)
      [] handler = "_sno" -> _sno(s) [] handler = "_sna" -> _sna(s)
      [] handler = "_szs" -> _szs(s)
      [] handler = "_sfg" -> _sfg(s) [] handler = "_inp" -> _inp(s)
      [] handler = "_out" -> _out(s)
      [] OTHER -> s

\* decoding that matches the I/O group without looking at bit 3
_decode_and_execute_loose(s) ==
    LET opcode == And(Shr(s.ir, 6), 3)
    IN IF opcode \in {0, 1, 2}
       THEN _execute_memory_reference(s, opcode)
       ELSE IF s.ir \in DOMAIN instructions
            THEN call(instructions[s.ir], s)
            ELSE LET io_opcode == And(Shr(s.ir, 3), 30)
                 IN IF io_opcode \in DOMAIN instructions
                    THEN call(instructions[io_opcode], s)
                    ELSE s

_decode_and_execute(s) ==
    LET opcode == And(Shr(s.ir, 6), 3)
    IN IF opcode \in {0, 1, 2}
       THEN _execute_memory_reference(s, opcode)
       ELSE IF s.ir \in DOMAIN instructions
            THEN call(instructions[s.ir], s)
            ELSE LET io_opcode == And(Shr(s.ir, 3), 31)
                 IN IF io_opcode \in DOMAIN instructions
                    THEN call(instructions[io_opcode], s)
                    ELSE s

\* the instruction cycle without the test of halted
execute_instruction_ignores_halt(s) ==
    LET s1 == [s EXCEPT !.mar = s.pc]
        s2 == [s1 EXCEPT !.ir = read(s1, s1.mar)]
        s3 == [s2 EXCEPT !.pc = And(s2.pc + 1, 255)]
    IN _decode_and_execute(s3)

execute_instruction(s) ==
    IF s.halted THEN s
    ELSE LET s1 == [s EXCEPT !.mar = s.pc]
             s2 == [s1 EXCEPT !.ir = read(s1, s1.mar)]
             s3 == [s2 EXCEPT !.pc = And(s2.pc + 1, 255)]
         IN _decode_and_execute(s3)

load_address(s) ==
    IF ~s.run_stop THEN [s EXCEPT !.pc = s.data_switches] ELSE s

\* LOAD DATA that leaves PC where it is
load_data_keeps_pc(s) ==
    IF ~s.run_stop
    THEN LET s1 == write(s, s.pc, s.data_switches)
         IN [s1 EXCEPT !.ir = s1.data_switches]
    ELSE s

load_data(s) ==
    IF ~s.run_stop
    THEN LET s1 == write(s, s.pc, s.data_switches)
             s2 == [s1 EXCEPT !.ir = s1.data_switches]
         IN [s2 EXCEPT !.pc = And(s2.pc + 1, 255)]
    ELSE s

display_memory(s) ==
    IF ~s.run_stop
    THEN LET s1 == [s EXCEPT !.ir = read(s, s.pc)]
         IN [s1 EXCEPT !.pc = And(s1.pc + 1, 255)]
    ELSE s

stop(s) == [s EXCEPT !.running = FALSE]

cpu_set_data_switches(s, value) == [s EXCEPT !.data_switches = And(value, 255)]

set_run_stop(s, run_mode) ==
    LET s1 == [s EXCEPT !.run_stop = run_mode]
    IN IF ~run_mode THEN [s1 EXCEPT !.running = FALSE] ELSE s1

----------------------------------------------------------------------------
(* Python strings.  A string is the sequence of its characters; the source *)
(* texts are written in upper and lower case letters, digits, the space,   *)
(* the newline and the punctuation the assembler looks at.                 *)

LowerCase == <<"a", "b", "c", "d", "e", "f", "g", "h", "i", "j", "k", "l", "m",
               "n", "o", "p", "q", "r", "s", "t", "u", "v", "w", "x", "y", "z">>
UpperCase == <<"A", "B", "C", "D", "E", "F", "G", "H", "I", "J", "K", "L", "M",
               "N", "O", "P", "Q", "R", "S", "T", "U", "V", "W", "X", "Y", "Z">>
DecimalDigits == <<"0", "1", "2", "3", "4", "5", "6", "7", "8", "9">>
HexDigits == DecimalDigits \o <<"A", "B", "C", "D", "E", "F">>

Min(S) == CHOOSE x \in S : \A y \in S : x <= y
Max(S) == CHOOSE x \in S : \A y \in S : x >= y

\* the position of c in the alphabet A, 0 when absent
IndexIn(A, c) ==
    IF \E i \in 1..Len(A) : A[i] = c
    THEN Min({i \in 1..Len(A) : A[i] = c}) ELSE 0

\* str.upper()
upper(t) ==
    [i \in 1..Len(t) |->
        IF IndexIn(LowerCase, t[i]) # 0
        THEN UpperCase[IndexIn(LowerCase, t[i])] ELSE t[i]]

\* str.strip()
strip(t) ==
    LET kept == {i \in 1..Len(t) : t[i] \notin {" ", "\n"}}
    IN IF kept = {} THEN <<>> ELSE SubSeq(t, Min(kept), Max(kept))

\* str.find(c) + 1
find(t, c) == IndexIn(t, c)

\* t.split(c)[0] and t.split(c, 1)[1]
before(t, c) == IF find(t, c) = 0 THEN t ELSE SubSeq(t, 1, find(t, c) - 1)
after(t, c) == SubSeq(t, find(t, c) + 1, Len(t))

\* t.split(c)
RECURSIVE split_on(_, _)
split_on(t, c) ==
    IF find(t, c) = 0 THEN <<t>>
    ELSE <<before(t, c)>> \o split_on(after(t, c), c)

\* t.split()
RECURSIVE split(_)
split(t) ==
    LET u == strip(t)
    IN IF u = <<>> THEN <<>>
       ELSE IF find(u, " ") = 0 THEN <<u>>
       ELSE <<before(u, " ")>> \o split(after(u, " "))

startswith(t, p) == Len(t) >= Len(p) /\ SubSeq(t, 1, Len(p)) = p
endswith(t, p) ==
    Len(t) >= Len(p) /\ SubSeq(t, Len(t) - Len(p) + 1, Len(t)) = p

\* str.isdigit()
isdigit(t) ==
    t # <<>> /\ \A i \in 1..Len(t) : IndexIn(DecimalDigits, t[i]) # 0

\* the value of the digits ds in the base, most significant first
RECURSIVE digits_value(_, _)
digits_value(ds, base) ==
    IF ds = <<>> THEN 0
    ELSE digits_value(SubSeq(ds, 1, Len(ds) - 1), base) * base
             + (IndexIn(HexDigits, upper(ds)[Len(ds)]) - 1)

\* what a call leaves: a value, or the exception it raised
Value(v) == [exc |-> "", v |-> v, msg |-> ""]
Raise(exc, msg) == [exc |-> exc, v |-> 0, msg |-> msg]

\* int(t, base): an optional 0x / 0b prefix, then one or more digits of the
\* base; anything else raises ValueError
int(t, base) ==
    LET prefix == IF base = 16 THEN <<"0", "x">> ELSE IF base = 2 THEN <<"0", "b">> ELSE <<>>
        ds == IF prefix # <<>> /\ startswith(upper(t), upper(prefix))
              THEN SubSeq(t, 3, Len(t)) ELSE t
    IN IF ds # <<>> /\ \A i \in 1..Len(ds) :
                           IndexIn(HexDigits, upper(ds)[i]) \in 1..base
       THEN Value(digits_value(ds, base))
       ELSE Raise("ValueError", "invalid literal for int()")

\* str(n) for n >= 0
RECURSIVE str(_)
str(n) ==
    IF n < 10 THEN <<DecimalDigits[n + 1]>>
    ELSE str(n \div 10) \o <<DecimalDigits[(n % 10) + 1]>>

\* f"{n:02X}" for n < 256
format_02X(n) ==
    IF n < 16 THEN <<"0", HexDigits[n + 1]>>
    ELSE <<HexDigits[((n \div 16) % 16) + 1], HexDigits[(n % 16) + 1]>>

----------------------------------------------------------------------------
(* MICRO2_Assembler                                                        *)

memory_size == 256

memory_ref_opcodes == (<<"J", "M", "P">> :> 0) @@ (<<"S", "T", "R">> :> 1) @@ (<<"A", "D", "D">> :> 2)

register_opcodes ==
    (<<"C", "L", "R">> :> 192) @@ (<<"C", "M", "P">> :> 193) @@ (<<"R", "T", "L">> :> 194) @@ (<<"R", "T", "R">> :> 195)
    @@ (<<"O", "R", "S">> :> 196) @@ (<<"N", "O", "P">> :> 197) @@ (<<"H", "L", "T">> :> 198)

skip_opcodes == (<<"S", "N", "O">> :> 200) @@ (<<"S", "N", "A">> :> 201) @@ (<<"S", "Z", "S">> :> 202)

io_opcodes == (<<"S", "F", "G">> :> 208) @@ (<<"I", "N", "P">> :> 224) @@ (<<"O", "U", "T">> :> 240)

\* a literal: 0x.., 0b.. or decimal digits; what else raises AssemblyError
parse_literal(operand, what) ==
    IF startswith(upper(operand), <<"0", "X">>) THEN int(operand, 16)
    ELSE IF startswith(upper(operand), <<"0", "B">>) THEN int(operand, 2)
    ELSE IF isdigit(operand) THEN int(operand, 10)
    ELSE Raise("AssemblyError", what)

_parse_address_value(operand) == parse_literal(operand, "Invalid address value")

\* _preprocess: the lines of the source without their ; comments, stripped,
\* the empty ones dropped
_preprocess(source) ==
    LET lines == split_on(source, "\n")
        cut == [i \in 1..Len(lines) |-> strip(before(lines[i], ";"))]
    IN SelectSeq(cut, LAMBDA line : line # <<>>)

\* an entry of the error list: f"Line {line_num + 1}: ..."
ErrorAt(line_num, msg) == [line |-> line_num + 1, msg |-> msg]

is_org(line) == startswith(upper(line), <<"O", "R", "G">>)
is_label(line) == find(line, ":") # 0 /\ ~startswith(line, <<" ">>)

\* the first pass over the line with index line_num (from 0): a is the
\* cursor (address), the labels and the errors so far
first_pass_line(a, line_num, line0) ==
    LET line == strip(line0)
    IN IF line = <<>> \/ startswith(line, <<"#">>) THEN a
       ELSE IF is_org(line)
       THEN LET parts == split(line)
                r == _parse_address_value(parts[2])
            IN IF Len(parts) # 2
               THEN [a EXCEPT !.errors =
                        Append(@, ErrorAt(line_num, "ORG requires one address"))]
               ELSE IF r.exc # ""
               THEN [a EXCEPT !.errors =
                        Append(@, ErrorAt(line_num, "ORG error"))]
               ELSE IF r.v >= memory_size
               THEN [a EXCEPT !.address = r.v,
                              !.errors = Append(@, ErrorAt(line_num,
                                             "ORG address exceeds memory size"))]
               ELSE [a EXCEPT !.address = r.v]
       ELSE IF is_label(line)
       THEN LET label == strip(before(line, ":"))
                remainder == strip(after(line, ":"))
                a1 == [a EXCEPT !.labels = (upper(label) :> a.address) @@ @]
            IN IF remainder # <<>> /\ ~is_org(remainder)
               THEN [a1 EXCEPT !.address = @ + 1]
               ELSE a1
       ELSE [a EXCEPT !.address = @ + 1]

RECURSIVE first_pass(_, _, _)
first_pass(a, lines, i) ==
    IF i > Len(lines) THEN a
    ELSE first_pass(first_pass_line(a, i - 1, lines[i]), lines, i + 1)

_parse_address(known, operand0) ==
    LET indirect == \/ startswith(operand0, <<"(">>) /\ endswith(operand0, <<")">>)
                    \/ startswith(operand0, <<"*">>)
        operand == IF startswith(operand0, <<"(">>) /\ endswith(operand0, <<")">>)
                   THEN SubSeq(operand0, 2, Len(operand0) - 1)
                   ELSE IF startswith(operand0, <<"*">>)
                   THEN SubSeq(operand0, 2, Len(operand0))
                   ELSE operand0
        r == IF operand \in DOMAIN known THEN Value(known[operand])
             ELSE parse_literal(operand, "Invalid address")
    IN IF r.exc # "" THEN r
       ELSE IF ~indirect /\ r.v > 31
       THEN Raise("AssemblyError", "Direct address exceeds 5-bit range (0-31)")
       ELSE IF indirect /\ r.v > 31
       THEN Raise("AssemblyError",
                  "Indirect address pointer exceeds 5-bit range (0-31)")
       ELSE Value([indirect |-> indirect, addr |-> r.v])

_parse_device_address(operand) ==
    LET r == parse_literal(operand, "Invalid device address")
    IN IF r.exc # "" THEN r
       ELSE IF ~(0 <= r.v /\ r.v <= 7)
       THEN Raise("AssemblyError", "Device address must be 0-7")
       ELSE r

_parse_data_value(operand) ==
    LET r == parse_literal(operand, "Invalid data value")
    IN IF r.exc # "" THEN r
       ELSE IF ~(0 <= r.v /\ r.v <= 255)
       THEN Raise("AssemblyError", "Data value must be 0-255")
       ELSE r

_parse_instruction(known, line) ==
    LET parts == split(upper(line))
        mnemonic == parts[1]
    IN IF parts = <<>> THEN Raise("AssemblyError", "Empty instruction")
       ELSE IF mnemonic \in DOMAIN memory_ref_opcodes
       THEN IF Len(parts) # 2
            THEN Raise("AssemblyError", "requires one operand")
            ELSE LET r == _parse_address(known, parts[2])
                 IN IF r.exc # "" THEN r
                    ELSE Value(Or(Or(Shl(memory_ref_opcodes[mnemonic], 6),
                                     Shl(IF r.v.indirect THEN 1 ELSE 0, 5)),
                                  And(r.v.addr, 31)))
       ELSE IF mnemonic \in DOMAIN register_opcodes
       THEN IF Len(parts) # 1
            THEN Raise("AssemblyError", "takes no operands")
            ELSE Value(register_opcodes[mnemonic])
       ELSE IF mnemonic \in DOMAIN skip_opcodes
       THEN IF Len(parts) # 1
            THEN Raise("AssemblyError", "takes no operands")
            ELSE Value(skip_opcodes[mnemonic])
       ELSE IF mnemonic \in DOMAIN io_opcodes
       THEN IF Len(parts) # 2
            THEN Raise("AssemblyError", "requires device address")
            ELSE LET r == _parse_device_address(parts[2])
                 IN IF r.exc # "" THEN r
                    ELSE Value(Or(io_opcodes[mnemonic], r.v))
       ELSE IF mnemonic = <<"D", "A", "T", "A">>
       THEN IF Len(parts) # 2
            THEN Raise("AssemblyError", "DATA requires one value")
            ELSE _parse_data_value(parts[2])
       ELSE Raise("AssemblyError", "Unknown instruction")

\* the second pass over the line with index line_num: a holds the cursor,
\* the errors, sparse_code, the (line, address) pairs at which a word was
\* stored, and the exception that left the loop, if any.
\* -- the instruction r has been parsed, or the parse has raised
second_pass_store(a, line_num, r) ==
    IF r.exc = ""
    THEN [a EXCEPT !.sparse_code = (a.address :> r.v) @@ @,
                   !.stored = Append(@, [line |-> line_num + 1,
                                         address |-> a.address]),
                   !.address = @ + 1]
    ELSE IF r.exc = "AssemblyError"
    THEN [a EXCEPT !.errors = Append(@, ErrorAt(line_num, r.msg)),
                   !.sparse_code = (a.address :> 0) @@ @,
                   !.stored = Append(@, [line |-> line_num + 1,
                                         address |-> a.address]),
                   !.address = @ + 1]
    ELSE [a EXCEPT !.raised = r.exc]

\* -- line is the code of the line, without label and # comment
second_pass_code(a, known, line_num, line) ==
    IF line = <<>> THEN a
    ELSE IF a.address >= memory_size
    THEN [a EXCEPT !.errors = Append(@, ErrorAt(line_num,
                                  "Address exceeds memory size"))]
    ELSE second_pass_store(a, line_num, _parse_instruction(known, line))

\* -- an ORG line split into parts
second_pass_org(a, parts) ==
    IF Len(parts) < 2 THEN a
    ELSE IF _parse_address_value(parts[2]).exc # "" THEN a
    ELSE [a EXCEPT !.address = _parse_address_value(parts[2]).v]

\* -- line is the stripped line
second_pass_stripped(a, known, line_num, line) ==
    IF line = <<>> \/ startswith(line, <<"#">>) THEN a
    ELSE IF is_org(line) THEN second_pass_org(a, split(line))
    ELSE IF is_label(line)
    THEN IF strip(after(line, ":")) = <<>> THEN a
         ELSE second_pass_code(a, known, line_num,
                               strip(before(strip(after(line, ":")), "#")))
    ELSE second_pass_code(a, known, line_num, strip(before(line, "#")))

second_pass_line(a, known, line_num, line0) ==
    second_pass_stripped(a, known, line_num, strip(line0))

RECURSIVE second_pass(_, _, _, _)
second_pass(a, known, lines, i) ==
    IF i > Len(lines) \/ a.raised # "" THEN a
    ELSE second_pass(second_pass_line(a, known, i - 1, lines[i]),
                     known, lines, i + 1)

NoLabels == [x \in {} |-> 0]

\* what assemble leaves: the returned machine_code and errors, the
\* assembler's labels, sparse_code, and the exception raised instead of
\* returning, if any; p1 and p2 are the results of the two passes
assemble_result(p1, p2) ==
    [machine_code |->
         IF p2.raised # "" \/ DOMAIN p2.sparse_code = {} THEN <<>>
         ELSE [i \in 1..(Max(DOMAIN p2.sparse_code) + 1) |->
                  IF i - 1 \in DOMAIN p2.sparse_code
                  THEN p2.sparse_code[i - 1] ELSE 0],
     errors |-> p2.errors,
     labels |-> p1.labels,
     sparse_code |-> p2.sparse_code,
     stored |-> p2.stored,
     raised |-> p2.raised]

assemble_second_pass(p1, lines) ==
    assemble_result(p1,
        second_pass([address |-> 0, errors |-> p1.errors,
                     sparse_code |-> NoLabels, stored |-> <<>>,
                     raised |-> ""],
                    p1.labels, lines, 1))

assemble_lines(lines) ==
    assemble_second_pass(
        first_pass([address |-> 0, labels |-> NoLabels, errors |-> <<>>],
                   lines, 1),
        lines)

assemble(source) == assemble_lines(_preprocess(source))

----------------------------------------------------------------------------
(* MICRO2_Disassembler                                                     *)

memory_ref_names == (0 :> <<"J", "M", "P">>) @@ (1 :> <<"S", "T", "R">>) @@ (2 :> <<"A", "D", "D">>)

register_names ==
    (192 :> <<"C", "L", "R">>) @@ (193 :> <<"C", "M", "P">>) @@ (194 :> <<"R", "T", "L">>) @@ (195 :> <<"R", "T", "R">>)
    @@ (196 :> <<"O", "R", "S">>) @@ (197 :> <<"N", "O", "P">>) @@ (198 :> <<"H", "L", "T">>)

skip_names == (200 :> <<"S", "N", "O">>) @@ (201 :> <<"S", "N", "A">>) @@ (202 :> <<"S", "Z", "S">>)

io_names == (26 :> <<"S", "F", "G">>) @@ (28 :> <<"I", "N", "P">>) @@ (30 :> <<"O", "U", "T">>)

\* memory references listed with the address as two hexadecimal digits
_disassemble_memory_ref_hex(instruction) ==
    LET opcode == And(Shr(instruction, 6), 3)
        indirect_bit == And(Shr(instruction, 5), 1)
        address == And(instruction, 31)
        mnemonic == memory_ref_names[opcode]
    IN IF indirect_bit # 0
       THEN mnemonic \o <<" ", "*">> \o format_02X(address)
       ELSE mnemonic \o <<" ">> \o format_02X(address)

_disassemble_memory_ref(instruction) ==
    LET opcode == And(Shr(instruction, 6), 3)
        indirect_bit == And(Shr(instruction, 5), 1)
        address == And(instruction, 31)
        mnemonic == memory_ref_names[opcode]
    IN IF indirect_bit # 0
       THEN mnemonic \o <<" ", "*">> \o str(address)
       ELSE mnemonic \o <<" ">> \o str(address)

disassemble_instruction(instruction0) ==
    LET instruction == And(instruction0, 255)
        opcode == And(Shr(instruction, 6), 3)
        io_opcode == And(Shr(instruction, 3), 31)
    IN IF opcode \in DOMAIN memory_ref_names
       THEN _disassemble_memory_ref(instruction)
       ELSE IF instruction \in DOMAIN register_names
       THEN register_names[instruction]
       ELSE IF instruction \in DOMAIN skip_names
       THEN skip_names[instruction]
       ELSE IF io_opcode \in DOMAIN io_names
       THEN io_names[io_opcode] \o <<" ">> \o str(And(instruction, 7))
       ELSE <<"D", "A", "T", "A", " ", "0", "x">> \o format_02X(instruction)
                \o <<" ", " ", ";", " ", "U", "n", "k", "n", "o", "w", "n", " ", "i", "n", "s", "t", "r", "u", "c", "t", "i", "o", "n">>

\* analyze_program: the bounds loop keeps the last address that reads
\* nonzero, and 0 when there is none
program_end(s) ==
    IF \A addr \in Addrs : read(s, addr) = 0 THEN 0
    ELSE Max({addr \in Addrs : read(s, addr) # 0})

\* what the analysis text says: whether a program was found ("No program
\* found in memory." otherwise), the program size and the addresses of the
\* listing, in order
analyze_program(s) ==
    IF program_end(s) = 0
    THEN [found |-> FALSE, size |-> 0, listed |-> <<>>]
    ELSE [found |-> TRUE, size |-> program_end(s) + 1,
          listed |-> [i \in 1..(program_end(s) + 1) |-> i - 1]]

NoAnalysis == [found |-> FALSE, size |-> 0, listed |-> <<>>]

----------------------------------------------------------------------------
(* MICRO2_Emulator: the state after construction                           *)

Constructed ==
    [ac |-> 0, pc |-> 0, ir |-> 0, mar |-> 0, mdr |-> 0, msr |-> 0,
     overflow |-> FALSE, running |-> FALSE, halted |-> FALSE,
     data_switches |-> 0, run_stop |-> FALSE,
     memory_banks |-> [b \in Banks |-> [a \in Addrs |-> 0]],
     current_bank |-> 0, num_banks |-> 1,
     flag |-> [d \in Devices |-> d = 3],
     input_queue |-> <<>>, output_buffer |-> <<>>, switch_value |-> 0,
     display_value |-> 0, tape_data |-> <<>>, read_position |-> 0,
     punch_data |-> <<>>,
     breakpoints |-> {},
     labels |-> NoLabels, errors |-> <<>>]

NoCall == [op |-> "none", ok |-> TRUE, msg |-> "", n |-> 0]

Returned(op, ok, msg, n) == [op |-> op, ok |-> ok, msg |-> msg, n |-> n]

\* the threads that may be inside run_program at once
Workers == {1, 2}

\* a thread that has not been started: where it is in run_program, the
\* local instruction_count and the argument max_instructions, whether
\* run_program_thread of the GUI made the call, what the call returned, and
\* the stop requests made of it since it was started
NoWorker ==
    [at |-> "none", count |-> 0, max |-> 0, gui |-> FALSE, result |-> NoCall,
     requested |-> FALSE, after |-> 0]

\* the state s with no run_program call in progress
Start(s) ==
    /\ ac = s.ac /\ pc = s.pc /\ ir = s.ir /\ mar = s.mar
    /\ mdr = s.mdr /\ msr = s.msr
    /\ overflow = s.overflow /\ running = s.running /\ halted = s.halted
    /\ data_switches = s.data_switches /\ run_stop = s.run_stop
    /\ memory_banks = s.memory_banks /\ current_bank = s.current_bank
    /\ num_banks = s.num_banks
    /\ flag = s.flag /\ input_queue = s.input_queue
    /\ output_buffer = s.output_buffer /\ switch_value = s.switch_value
    /\ display_value = s.display_value /\ tape_data = s.tape_data
    /\ read_position = s.read_position /\ punch_data = s.punch_data
    /\ breakpoints = s.breakpoints
    /\ labels = s.labels /\ errors = s.errors
    /\ source_code = <<>> /\ machine_code = <<>> /\ disasm = <<>>
    /\ analysis = NoAnalysis
    /\ run_pc = "idle" /\ instruction_count = 0 /\ max_instructions = 0
    /\ running_program = FALSE /\ run_stop_var = FALSE
    /\ main_at = "idle" /\ workers = [w \in Workers |-> NoWorker]
    /\ ret = NoCall /\ calls = 0

Init == Start(Constructed)

----------------------------------------------------------------------------
(* MICRO2_Emulator: the facade                                             *)

default_max_instructions == 10000

reset(s) ==
    LET s1 == cpu_reset(s)
        s2 == memory_reset(s1)
        s3 == reset_all_devices(s2)
    IN [s3 EXCEPT !.breakpoints = {}]

\* load_assembly_program once assembler.assemble has left r: the
\* assembler keeps its labels and errors; an exception raised by assemble
\* is caught and reported as a failure
load_assembled_unchecked(s, r, start_address) ==
    IF r.raised # ""
    THEN [s EXCEPT !.labels = r.labels, !.errors = r.errors]
    ELSE [load_program(s, r.machine_code, start_address)
              EXCEPT !.labels = r.labels, !.errors = r.errors,
                     !.pc = start_address]

load_assembled(s, r, start_address) ==
    IF r.raised # "" \/ r.errors # <<>>
    THEN [s EXCEPT !.labels = r.labels, !.errors = r.errors]
    ELSE [load_program(s, r.machine_code, start_address)
              EXCEPT !.labels = r.labels, !.errors = r.errors,
                     !.pc = start_address]

load_assembled_ret(r) ==
    IF r.raised # ""
    THEN Returned("load_assembly_program", FALSE, "Assembly failed", 0)
    ELSE IF r.errors # <<>>
    THEN Returned("load_assembly_program", FALSE, "Assembly errors",
                  Len(r.errors))
    ELSE Returned("load_assembly_program", TRUE, "Program loaded",
                  Len(r.machine_code))

\* load_assembly_program that loads whatever the assembler produced
load_assembly_program_unchecked(s, source, start_address) ==
    load_assembled_unchecked(s, assemble(source), start_address)

load_assembly_program(s, source, start_address) ==
    load_assembled(s, assemble(source), start_address)

load_assembly_program_ret(source) == load_assembled_ret(assemble(source))

load_binary_program(s, code, start_address) ==
    LET s1 == load_program(s, code, start_address)
    IN [s1 EXCEPT !.pc = start_address]

single_step(s) ==
    IF s.halted THEN s
    ELSE IF s.pc \in s.breakpoints THEN s
    ELSE execute_instruction(s)

single_step_ret(s) ==
    IF s.halted THEN Returned("single_step", FALSE, "CPU is halted", 0)
    ELSE IF s.pc \in s.breakpoints
         THEN Returned("single_step", FALSE, "Breakpoint at address", s.pc)
    ELSE IF execute_instruction(s).halted
         THEN Returned("single_step", FALSE, "CPU halted", 0)
    ELSE Returned("single_step", TRUE, "Instruction executed", 0)

set_breakpoint(s, address) ==
    [s EXCEPT !.breakpoints = @ \cup {And(address, 255)}]

clear_breakpoint(s, address) ==
    [s EXCEPT !.breakpoints = @ \ {And(address, 255)}]

set_data_switches(s, value) ==
    io_set_data_switches(cpu_set_data_switches(s, value), value)

\* run_program after its loop: s is the state and count the local counter
run_program_end(s, count, max) ==
    IF count >= max THEN [s EXCEPT !.running = FALSE] ELSE s

run_program_end_ret(s, count, max) ==
    IF count >= max
    THEN Returned("run_program", FALSE, "Maximum instruction limit reached", max)
    ELSE IF s.halted
         THEN Returned("run_program", TRUE, "Program completed", count)
         ELSE Returned("run_program", TRUE, "Program stopped", count)

----------------------------------------------------------------------------
(* The calls a collaborator makes, one after the other.  Inputs are drawn  *)
(* from small sets; a behaviour makes at most MaxCalls calls and MaxRun    *)
(* iterations of one run_program loop are followed.                        *)

MaxCalls == 3
MaxRun == 4

\* ORS / OUT 0 / STR 5 / HLT
ProgBank == <<196, 240, 69, 198>>
\* INP 1 / OUT 2 / ADD 5 / SNO / HLT / a data word wider than 8 bits
ProgIO == <<225, 242, 133, 200, 198, 511>>
\* JMP 0
ProgLoop == <<0>>

Programs == {ProgBank, ProgIO, ProgLoop}
StartAddresses == {0, 300}
\* source texts: a program with a gap left by ORG, one with an unknown
\* mnemonic on its second line, one with a malformed hexadecimal literal
SourceGap == <<"O", "R", "S", "\n", "O", "R", "G", " ", "2", "\n", "S", "T", "R", " ", "5", "\n", "H", "L", "T">>
SourceUnknown == <<"H", "L", "T", "\n", "H", "A", "L", "T">>
SourceBadHex == <<"C", "L", "R", "\n", "D", "A", "T", "A", " ", "0", "x", "Z", "Z">>
Sources == {SourceGap, SourceUnknown, SourceBadHex}
Budgets == {0, 2}
SwitchValues == {1, 426}
BreakAddrs == {257}
QueueInputs == {[is_str |-> FALSE, v |-> 85],
                [is_str |-> TRUE, v |-> <<>>],
                [is_str |-> TRUE, v |-> <<72, 105>>]}
TapeInputs == {<<>>, <<7, 300>>}
NumBanks == {0, 2, 9}

ThreadVars == <<running_program, run_stop_var, main_at, workers>>
RunVars == <<run_pc, instruction_count, max_instructions, ThreadVars>>
TextVars == <<source_code, machine_code, disasm, analysis>>

\* a call that returns at once: leaves state t and returns r
Facade(t, r) ==
    /\ run_pc = "idle"
    /\ calls < MaxCalls
    /\ Commit(t)
    /\ ret' = r
    /\ calls' = calls + 1
    /\ UNCHANGED <<RunVars, TextVars>>

Reset == Facade(reset(St), Returned("reset", TRUE, "", 0))

LoadAssembly ==
    /\ run_pc = "idle"
    /\ calls < MaxCalls
    /\ \E source \in Sources, a \in StartAddresses :
           /\ Commit(load_assembly_program(St, source, a))
           /\ ret' = load_assembly_program_ret(source)
           /\ source_code' = source
           /\ machine_code' = assemble(source).machine_code
    /\ calls' = calls + 1
    /\ UNCHANGED <<RunVars, disasm, analysis>>

LoadBinary ==
    \E code \in Programs, a \in StartAddresses :
        Facade(load_binary_program(St, code, a),
               Returned("load_binary_program", TRUE, "Binary program loaded",
                        Len(code)))

SingleStep == Facade(single_step(St), single_step_ret(St))

\* run_program up to its loop
run_program_call(max) ==
    /\ run_pc = "idle"
    /\ calls < MaxCalls
    /\ Commit([St EXCEPT !.running = TRUE])
    /\ run_pc' = "loop"
    /\ instruction_count' = 0
    /\ max_instructions' = max
    /\ calls' = calls + 1
    /\ UNCHANGED <<ret, TextVars, ThreadVars>>

RunProgram == \E max \in Budgets : run_program_call(max)

\* the loop condition of run_program
run_program_continues ==
    running /\ ~halted /\ instruction_count < max_instructions

\* one iteration of the loop of run_program, or its exit and return
run_program_iteration ==
    /\ run_pc = "loop"
    /\ IF run_program_continues
       THEN IF pc \in breakpoints
            THEN /\ Commit([St EXCEPT !.running = FALSE])
                 /\ ret' = Returned("run_program", FALSE,
                                    "Breakpoint at address", pc)
                 /\ run_pc' = "idle"
                 /\ UNCHANGED <<instruction_count, max_instructions>>
            ELSE LET t == execute_instruction(St)
                 IN IF t.halted
                    THEN /\ Commit(run_program_end(t, instruction_count,
                                                   max_instructions))
                         /\ ret' = run_program_end_ret(t, instruction_count,
                                                       max_instructions)
                         /\ run_pc' = "idle"
                         /\ UNCHANGED <<instruction_count, max_instructions>>
                    ELSE /\ Commit(t)
                         /\ instruction_count' = instruction_count + 1
                         /\ UNCHANGED <<run_pc, max_instructions, ret>>
       ELSE /\ Commit(run_program_end(St, instruction_count, max_instructions))
            /\ ret' = run_program_end_ret(St, instruction_count,
                                          max_instructions)
            /\ run_pc' = "idle"
            /\ UNCHANGED <<instruction_count, max_instructions>>
    /\ UNCHANGED <<calls, TextVars, ThreadVars>>

\* the iterations that are followed
RunLoop ==
    /\ run_program_continues => instruction_count < MaxRun
    /\ run_program_iteration

SetBreakpoint ==
    \E a \in BreakAddrs :
        Facade(set_breakpoint(St, a), Returned("set_breakpoint", TRUE, "", 0))

ClearBreakpoint ==
    \E a \in BreakAddrs :
        Facade(clear_breakpoint(St, a),
               Returned("clear_breakpoint", TRUE, "", 0))

PressLoadAddress ==
    Facade(load_address(St), Returned("press_load_address", TRUE, "", 0))

PressLoadData ==
    Facade(load_data(St), Returned("press_load_data", TRUE, "", 0))

PressDisplay ==
    Facade(display_memory(St), Returned("press_display", TRUE, "", 0))

PressStartStep ==
    IF run_stop
    THEN run_program_call(default_max_instructions)
    ELSE Facade(single_step(St),
                [single_step_ret(St) EXCEPT !.op = "press_start_step"])

SetRunStopSwitch ==
    \E run_mode \in BOOLEAN :
        Facade(set_run_stop(St, run_mode),
               Returned("set_run_stop_switch", TRUE, "", 0))

SetDataSwitches ==
    \E v \in SwitchValues :
        Facade(set_data_switches(St, v),
               Returned("set_data_switches", TRUE, "", 0))

QueueConsoleInput ==
    \E text \in QueueInputs :
        Facade(queue_input(St, text),
               Returned("queue_console_input", TRUE, "", 0))

LoadPaperTape ==
    \E data \in TapeInputs :
        Facade(load_tape(St, data), Returned("load_paper_tape", TRUE, "", 0))

SetNumBanks ==
    \E n \in NumBanks :
        Facade(set_num_banks(St, n), Returned("set_num_banks", TRUE, "", 0))

Stop == Facade(stop(St), Returned("stop", TRUE, "", 0))

Next ==
    \/ Reset \/ LoadAssembly \/ LoadBinary \/ SingleStep
    \/ RunProgram \/ RunLoop
    \/ SetBreakpoint \/ ClearBreakpoint
    \/ PressLoadAddress \/ PressLoadData \/ PressDisplay \/ PressStartStep
    \/ SetRunStopSwitch \/ SetDataSwitches
    \/ QueueConsoleInput \/ LoadPaperTape \/ SetNumBanks \/ Stop

Spec == Init /\ [][Next]_vars

----------------------------------------------------------------------------
(* The instruction cycle on its own, as the unit tests drive it: a state   *)
(* is set up (registers, memory cells, device contents) and                *)
(* cpu.execute_instruction() is called.  The cells that are not set up     *)
(* hold HLT, so every behaviour ends after a few instructions.             *)

Word == 0..255

\* every cell of every bank holds HLT
HaltFilled == [b \in Banks |-> [a \in Addrs |-> 198]]

\* cpu.execute_instruction()
CpuStep ==
    /\ Commit(execute_instruction(St))
    /\ ret' = Returned("execute_instruction",
                       ~execute_instruction(St).halted, "", 0)
    /\ UNCHANGED <<RunVars, TextVars, calls>>

\* the test fixture writes registers and cells of a freshly built machine
Fresh == ret = NoCall

SetUp(s) ==
    /\ Commit(s)
    /\ ret' = Returned("setUp", TRUE, "", 0)
    /\ UNCHANGED <<RunVars, TextVars, calls>>

\* -- memory reference instructions: every address p, every word w --------
PointerValues == {0, 37, 255}
PointerProbes == {0, 200}

\* a direct reference w at p; the other cells hold HLT
SetUpDirect ==
    Fresh /\ \E p \in Addrs, w \in {x \in 0..191 : And(Shr(x, 5), 1) = 0} :
        SetUp([Constructed EXCEPT
                  !.pc = p, !.ac = 90,
                  !.memory_banks = [HaltFilled EXCEPT ![0][p] = w]])

\* an indirect reference w at p through the pointer v in cell w mod 32
SetUpIndirect ==
    Fresh /\ \E p \in Addrs, w \in {x \in 0..191 : And(Shr(x, 5), 1) = 1},
       v \in PointerValues :
        SetUp([Constructed EXCEPT
                  !.pc = p, !.ac = 90,
                  !.memory_banks = [HaltFilled EXCEPT ![0][w % 32] = v,
                                                       ![0][p] = w]])

\* an indirect reference through every pointer value
SetUpPointer ==
    Fresh /\ \E p \in PointerProbes, w \in {39, 103, 167}, v \in Word :
        SetUp([Constructed EXCEPT
                  !.pc = p, !.ac = 90,
                  !.memory_banks = [HaltFilled EXCEPT ![0][w % 32] = v,
                                                       ![0][p] = w]])

NextMem == SetUpDirect \/ SetUpIndirect \/ SetUpPointer \/ CpuStep

SpecMem == Init /\ [][NextMem]_vars

\* -- ADD: every accumulator and every operand ------------------------------
OperandProbes == {0, 1, 50, 127, 128, 200, 254, 255}

\* ADD 16 at address 0 with the operand m in cell 16
AddFixture(a0, m, o) ==
    [Constructed EXCEPT
        !.pc = 0, !.ac = a0, !.overflow = o,
        !.memory_banks = [HaltFilled EXCEPT ![0][0] = 144, ![0][16] = m]]

\* overflow is set from an earlier ADD
SetUpAddCarried ==
    Fresh /\ \E a0 \in Word, m \in Word : SetUp(AddFixture(a0, m, TRUE))

SetUpAddClear ==
    Fresh /\ \E a0 \in Word, m \in OperandProbes :
        SetUp(AddFixture(a0, m, FALSE))

NextArith == SetUpAddCarried \/ SetUpAddClear \/ CpuStep

SpecArith == Init /\ [][NextArith]_vars

\* -- register, skip and I/O instructions -----------------------------------
AddressProbes == {0, 30, 31, 127, 254, 255}
AccumulatorProbes == {0, 1, 85, 127, 128, 255}
InputProbes == {0, 1, 85, 128, 170, 255}

\* device contents a program can find: nothing queued; a word queued; the
\* empty string queued; switches set and a tape loaded; the same after
\* reset_all_devices
DeviceFixtures ==
    {Constructed,
     queue_input(Constructed, [is_str |-> FALSE, v |-> 85]),
     queue_input(Constructed, [is_str |-> TRUE, v |-> <<>>]),
     load_tape(set_data_switches(Constructed, 240), <<7, 9>>),
     reset_all_devices(
         queue_input(load_tape(set_data_switches(Constructed, 240), <<7, 9>>),
                     [is_str |-> TRUE, v |-> <<72, 105>>]))}

\* the word w at address p of bank 0
OneInstruction(s, p, w, a0, o) ==
    [s EXCEPT !.pc = p, !.ac = a0, !.overflow = o,
              !.memory_banks = [HaltFilled EXCEPT ![0][p] = w]]

\* JMP, STR, ADD and the register and skip instructions (and the unassigned
\* words among them)
SetUpRegister ==
    Fresh /\ \E p \in AddressProbes, w \in 0..207,
                a0 \in AccumulatorProbes, o \in BOOLEAN :
        SetUp(OneInstruction(set_data_switches(Constructed, 240),
                             p, w, a0, o))

\* SFG, INP, OUT and the unassigned words around them, on every device
SetUpIO ==
    Fresh /\ \E p \in AddressProbes, w \in 208..255,
                a0 \in AccumulatorProbes, o \in BOOLEAN,
                io \in DeviceFixtures :
        SetUp(OneInstruction(io, p, w, a0, o))

\* INP 1, INP 3 and INP 5 delivering the word v
InputFixture(d, v) ==
    CASE d = 1 -> queue_input(Constructed, [is_str |-> FALSE, v |-> v])
      [] d = 3 -> set_data_switches(Constructed, v)
      [] d = 5 -> load_tape(Constructed, <<v>>)

SetUpInput ==
    Fresh /\ \E d \in {1, 3, 5}, o \in BOOLEAN :
        \/ \E a0 \in Word, v \in InputProbes :
               SetUp(OneInstruction(InputFixture(d, v), 0, 224 + d, a0, o))
        \/ \E a0 \in AccumulatorProbes, v \in Word :
               SetUp(OneInstruction(InputFixture(d, v), 0, 224 + d, a0, o))

\* ADD 5 / SNO / SNO / HLT / HLT with AC = 100 and the operand m in cell 5
SetUpOverflow ==
    Fresh /\ \E m \in {50, 200} :
        SetUp([Constructed EXCEPT
                  !.ac = 100,
                  !.memory_banks = [HaltFilled EXCEPT ![0][0] = 133,
                                                      ![0][1] = 200,
                                                      ![0][2] = 200,
                                                      ![0][5] = m]])

NextOps ==
    SetUpRegister \/ SetUpIO \/ SetUpInput \/ SetUpOverflow \/ CpuStep

SpecOps == Init /\ [][NextOps]_vars

\* -- CLR executed twice ----------------------------------------------------
\* CLR at address p and at the address after it
TwoClr(s, p, a0, o) ==
    [s EXCEPT !.pc = p, !.ac = a0, !.overflow = o,
              !.memory_banks = [HaltFilled EXCEPT ![0][p] = 192,
                                                  ![0][And(p + 1, 255)] = 192]]

SetUpClr ==
    Fresh /\ \E p \in AddressProbes, a0 \in AccumulatorProbes,
                o \in BOOLEAN, io \in DeviceFixtures :
        SetUp(TwoClr(io, p, a0, o))

NextClr == SetUpClr \/ CpuStep

SpecClr == Init /\ [][NextClr]_vars

\* -- bank selection: every accumulator, every number of banks -------------
BankRequests == -1..9

\* OUT 0 at address 0 of the current bank cur, with n banks active
SetUpBank ==
    Fresh /\ \E a0 \in Word, n \in 1..8, cur \in Banks :
        SetUp([set_num_banks(Constructed, n) EXCEPT
                  !.ac = a0, !.current_bank = cur,
                  !.memory_banks = [HaltFilled EXCEPT ![cur][0] = 240]])

\* memory.set_bank(i) on the state just set up
SelectBank ==
    /\ ret.op = "setUp"
    /\ \E i \in BankRequests :
           /\ Commit(set_bank(St, i))
           /\ ret' = Returned("set_bank", TRUE, "", i)
    /\ UNCHANGED <<RunVars, TextVars, calls>>

NextBank == SetUpBank \/ SelectBank \/ CpuStep

SpecBank == Init /\ [][NextBank]_vars

\* -- bank selection over sequences of calls -------------------------------
BankCallRequests == {-1, 0, 1, 7, 8}
BankAccumulators == {0, 1, 7, 9, 17}

\* memory.set_bank(i)
CallSetBank ==
    \E i \in BankCallRequests :
        Facade(set_bank(St, i), Returned("set_bank", TRUE, "", 0))

\* OUT 0 is written at PC and executed with a in the accumulator
ExecuteOutZero ==
    \E a \in BankAccumulators :
        Facade(execute_instruction(write([St EXCEPT !.ac = a], pc, 240)),
               Returned("execute_instruction", TRUE, "", 0))

\* OUT 0, set_num_banks and reset
NextMsr == ExecuteOutZero \/ SetNumBanks \/ Reset

SpecMsr == Init /\ [][NextMsr]_vars

\* the same with memory.set_bank called directly
NextSelect == CallSetBank \/ ExecuteOutZero \/ SetNumBanks \/ Reset

SpecSelect == Init /\ [][NextSelect]_vars

\* -- bank isolation: two or more banks, each with contents of its own ------
\* cell 16 of bank b holds 10 + b; the other cells hold HLT
BankMarked == [b \in Banks |-> [a \in Addrs |-> IF a = 16 THEN 10 + b ELSE 198]]

IsolationAddrs == {0, 16, 31, 255}
IsolationImages == {<<1, 2, 3>>, <<300>>}
\* STR 0, STR 16, STR 31, STR *0, STR *16 and OUT 0
IsolationWords == {64, 80, 95, 96, 112, 240}

\* the word w (a STR, or OUT 0) at address p of the current bank cur
SetUpIsolation ==
    Fresh /\ \E n \in 2..8, cur \in Banks, p \in IsolationAddrs,
                w \in IsolationWords, a0 \in {3, 90} :
        /\ cur < n
        /\ SetUp([set_data_switches(set_num_banks(Constructed, n), 165) EXCEPT
                     !.pc = p, !.ac = a0, !.current_bank = cur,
                     !.memory_banks = [BankMarked EXCEPT ![cur][p] = w]])

\* bank 0: STR 16 / OUT 0, then bank t: RTL / STR 16 / CLR / OUT 0, then
\* bank 0 again: ADD 16 / HLT, with AC = 16 + t at the start
SetUpSwitchAndBack ==
    Fresh /\ \E n \in 2..8, t \in 1..7 :
        /\ t < n
        /\ SetUp([set_num_banks(Constructed, n) EXCEPT
                     !.ac = 16 + t,
                     !.memory_banks =
                         [BankMarked EXCEPT ![0][0] = 80, ![0][1] = 240,
                                            ![t][2] = 194, ![t][3] = 80,
                                            ![t][4] = 192, ![t][5] = 240,
                                            ![0][6] = 144]])

\* the writes a collaborator makes on the state just set up
IsolatedWrite(t, op) ==
    /\ ret.op = "setUp"
    /\ Commit(t)
    /\ ret' = Returned(op, TRUE, "", 0)
    /\ UNCHANGED <<RunVars, TextVars, calls>>

LoadData == IsolatedWrite(load_data(St), "load_data")

LoadProgram ==
    \E code \in IsolationImages, a \in IsolationAddrs :
        IsolatedWrite(load_program(St, code, a), "load_program")

ClearMemory == IsolatedWrite(clear_memory(St), "clear_memory")

NextIsolation ==
    \/ SetUpIsolation \/ SetUpSwitchAndBack
    \/ LoadData \/ LoadProgram \/ ClearMemory \/ CpuStep

SpecIsolation == Init /\ [][NextIsolation]_vars

\* -- a debugging session: a program, breakpoints, then run and step -------
\* CLR / ADD 5 / STR 6 / HLT with 42 in cell 5
ProgSum == <<192, 133, 70, 198, 0, 42, 0>>
\* INP 1 / OUT 2 / SNA / HLT / JMP 0: loops for ever, writing to the console
ProgConsole == <<225, 242, 201, 198, 0>>
\* HLT
ProgHalt == <<198>>

RunPrograms == {ProgSum, ProgConsole, ProgHalt, ProgLoop}
RunBreakpoints == {0, 2, 300}
RunBudgets == {0, 1, 2, 3}

RECURSIVE set_breakpoints(_, _)
set_breakpoints(s, B) ==
    IF B = {} THEN s
    ELSE LET a == CHOOSE x \in B : TRUE
         IN set_breakpoints(set_breakpoint(s, a), B \ {a})

\* load_binary_program(code, start) and set_breakpoint(a) for every a in B
SetUpRun ==
    Fresh /\ \E code \in RunPrograms, start \in StartAddresses,
                B \in SUBSET RunBreakpoints :
        SetUp(set_breakpoints(load_binary_program(Constructed, code, start), B))

RunBudget == \E max \in RunBudgets : run_program_call(max)

NextRun == SetUpRun \/ RunBudget \/ RunLoop \/ SingleStep

SpecRun == Init /\ [][NextRun]_vars

\* -- calls made on a machine that may have halted -------------------------
\* load_binary_program(code, 0) with the RUN/STOP switch in either position
SetUpHalt ==
    Fresh /\ \E code \in RunPrograms, run_mode \in BOOLEAN :
        SetUp(set_run_stop(load_binary_program(Constructed, code, 0),
                           run_mode))

\* load_binary_program([HLT]) over the program that has run
LoadHalt ==
    Facade(load_binary_program(St, ProgHalt, 0),
           Returned("load_binary_program", TRUE, "Binary program loaded",
                    Len(ProgHalt)))

NextHalt ==
    \/ SetUpHalt \/ SingleStep \/ PressStartStep \/ RunProgram \/ RunLoop
    \/ SetRunStopSwitch \/ LoadHalt \/ Reset

SpecHalt == Init /\ [][NextHalt]_vars

\* -- program entry from the front panel ----------------------------------
\* a behaviour makes at most MaxPanel presses
MaxPanel == 5

PanelAddrs == {30, 255}
PanelWords == {85, 198}

\* set_data_switches(a); press_load_address()
LoadAddressAt(s, a) == load_address(set_data_switches(s, a))

\* set_data_switches(w); press_load_data()
LoadDataWord(s, w) == load_data(set_data_switches(s, w))

\* LOAD DATA pressed once for every word of ws, the switches set to the
\* word: the first half of the presses, then the second half.  In RUN mode
\* the presses do nothing
RECURSIVE LoadDataWords(_, _)
LoadDataWords(s, ws) ==
    IF s.run_stop \/ ws = <<>> THEN s
    ELSE IF Len(ws) = 1 THEN LoadDataWord(s, ws[1])
    ELSE LoadDataWords(LoadDataWords(s, SubSeq(ws, 1, Len(ws) \div 2)),
                       SubSeq(ws, Len(ws) \div 2 + 1, Len(ws)))

\* DISPLAY pressed once: the state left and the word IR shows
DisplayPress(s) ==
    [state |-> display_memory(s), shown |-> <<display_memory(s).ir>>]

\* DISPLAY pressed n times: the state left and the words IR has shown.  In
\* RUN mode IR stays as it is
RECURSIVE DisplayPresses(_, _)
DisplayMore(r, n) ==
    [state |-> DisplayPresses(r.state, n).state,
     shown |-> r.shown \o DisplayPresses(r.state, n).shown]

DisplayPresses(s, n) ==
    IF s.run_stop THEN [state |-> s, shown |-> [i \in 1..n |-> s.ir]]
    ELSE IF n = 0 THEN [state |-> s, shown |-> <<>>]
    ELSE IF n = 1 THEN DisplayPress(s)
    ELSE DisplayMore(DisplayPresses(s, n \div 2), n - n \div 2)

Panel(t, r) ==
    /\ calls < MaxPanel
    /\ Commit(t)
    /\ ret' = r
    /\ calls' = calls + 1
    /\ UNCHANGED <<RunVars, TextVars>>

\* a program is in memory and the RUN/STOP switch is in either position
SetUpPanel ==
    Fresh /\ \E code \in {ProgSum, ProgHalt}, run_mode \in BOOLEAN :
        SetUp(set_run_stop(load_binary_program(Constructed, code, 0),
                           run_mode))

PanelLoadAddress ==
    \E a \in PanelAddrs :
        Panel(LoadAddressAt(St, a),
              Returned("press_load_address", TRUE, "", 0))

PanelLoadData ==
    \E w \in PanelWords :
        Panel(LoadDataWord(St, w), Returned("press_load_data", TRUE, "", 0))

PanelDisplay ==
    Panel(display_memory(St), Returned("press_display", TRUE, "", 0))

NextPanel ==
    SetUpPanel \/ PanelLoadAddress \/ PanelLoadData \/ PanelDisplay

SpecPanel == Init /\ [][NextPanel]_vars

----------------------------------------------------------------------------
(* The I/O system on its own, as the unit tests drive it: values are       *)
(* queued, tapes loaded, switches set, and input_data, output_data and     *)
(* reset_all_devices are called on the MICRO2_IOSystem of a freshly built  *)
(* machine; a behaviour makes at most MaxIO calls.                         *)

MaxIO == 4

DeviceIds == 0..7
OutputWords == {65, 300}
IoTapes == {<<>>, <<7>>, <<7, 9>>}

\* the name the device in a slot was constructed with; "" for an empty slot
device_name(device_id) ==
    CASE device_id = 1 -> "Console Input"
      [] device_id = 2 -> "Console Output"
      [] device_id = 3 -> "Data Switches"
      [] device_id = 4 -> "LED Display"
      [] device_id = 5 -> "Paper Tape"
      [] OTHER -> ""

\* a call on the I/O system: leaves state t and returns r
IoCall(t, r) ==
    /\ calls < MaxIO
    /\ Commit(t)
    /\ ret' = r
    /\ calls' = calls + 1
    /\ UNCHANGED <<RunVars, TextVars>>

IoQueueInput ==
    \E value \in QueueInputs :
        IoCall(queue_input(St, value), Returned("queue_input", TRUE, "", 0))

\* io_system.input_data(device_id); the word read is returned
IoInput ==
    \E device_id \in DeviceIds :
        IoCall(io_input_state(St, device_id),
               Returned("input_data", TRUE, device_name(device_id),
                        io_input_value(St, device_id)))

IoOutput ==
    \E device_id \in DeviceIds, data \in OutputWords :
        IoCall(io_output_data(St, device_id, data),
               Returned("output_data", TRUE, device_name(device_id), data))

IoLoadTape ==
    \E data \in IoTapes :
        IoCall(load_tape(St, data), Returned("load_tape", TRUE, "", Len(data)))

IoSetSwitches ==
    \E value \in SwitchValues :
        IoCall(io_set_data_switches(St, value),
               Returned("set_data_switches", TRUE, "", 0))

IoReset == IoCall(reset_all_devices(St), Returned("reset_all_devices", TRUE, "", 0))

NextIO ==
    \/ IoQueueInput \/ IoInput \/ IoOutput \/ IoLoadTape
    \/ IoSetSwitches \/ IoReset

SpecIO == Init /\ [][NextIO]_vars

----------------------------------------------------------------------------
(* Console output over a long run: a loop that writes the accumulator to   *)
(* device 2 is set up and cpu.execute_instruction() is called until the    *)
(* states repeat, which is after more than max_buffer_size outputs.        *)

\* OUT 2 / JMP 0
ProgOutLoop == <<242, 0>>
\* ADD 4 / OUT 2 / JMP 0 / HLT / the data word 3
ProgCountLoop == <<132, 242, 0, 198, 3>>
OutPrograms == {ProgOutLoop, ProgCountLoop}
OutAccumulators == {65, 200}

SetUpOutput ==
    Fresh /\ \E code \in OutPrograms, a0 \in OutAccumulators :
        SetUp([load_program(Constructed, code, 0) EXCEPT !.ac = a0])

NextOut == SetUpOutput \/ CpuStep

SpecOut == Init /\ [][NextOut]_vars

----------------------------------------------------------------------------
(* run_program called from a thread of its own.  The facade takes no lock, *)
(* so the statements of run_program interleave with the calls other        *)
(* threads make.  A thread is followed from statement to statement: the    *)
(* assignment running = True, the loop condition, the breakpoint test, the *)
(* fetch and the decode-and-execute halves of execute_instruction, and the *)
(* code after the loop.  Each of these is taken as one step; a thread is   *)
(* followed for at most MaxWork instructions.                              *)

MaxWork == 3

LoopVars == <<run_pc, instruction_count, max_instructions>>

\* the fetch of execute_instruction
fetch(s) ==
    LET s1 == [s EXCEPT !.mar = s.pc]
        s2 == [s1 EXCEPT !.ir = read(s1, s1.mar)]
    IN [s2 EXCEPT !.pc = And(s2.pc + 1, 255)]

\* where a thread is once run_program has returned r
returns(wk, r) ==
    [wk EXCEPT !.result = r, !.at = IF wk.gui THEN "returned" ELSE "none"]

\* a step of thread w that leaves the machine in state t and the thread as wk
WorkerStep(w, t, wk) ==
    /\ Commit(t)
    /\ workers' = [workers EXCEPT ![w] = wk]
    /\ UNCHANGED <<LoopVars, running_program, run_stop_var, main_at, ret,
                   calls, TextVars>>

\* self.cpu.running = True; instruction_count = 0
WorkerCall(w) ==
    /\ workers[w].at = "call"
    /\ WorkerStep(w, [St EXCEPT !.running = TRUE],
                  [workers[w] EXCEPT !.at = "test", !.count = 0])

\* the condition of the while loop
WorkerTest(w) ==
    /\ workers[w].at = "test"
    /\ WorkerStep(w, St,
                  [workers[w] EXCEPT !.at =
                      IF running /\ ~halted /\ workers[w].count < workers[w].max
                      THEN "break" ELSE "end"])

\* if self.cpu.pc in self.breakpoints
WorkerBreak(w) ==
    /\ workers[w].at = "break"
    /\ IF pc \in breakpoints
       THEN WorkerStep(w, [St EXCEPT !.running = FALSE],
                       returns(workers[w],
                               Returned("run_program", FALSE,
                                        "Breakpoint at address", pc)))
       ELSE WorkerStep(w, St, [workers[w] EXCEPT !.at = "fetch"])

\* execute_instruction up to the decoding: a halted CPU returns False and
\* the loop is left
WorkerFetch(w) ==
    /\ workers[w].at = "fetch"
    /\ workers[w].count < MaxWork
    /\ IF halted
       THEN WorkerStep(w, St, [workers[w] EXCEPT !.at = "end"])
       ELSE WorkerStep(w, fetch(St),
                       [workers[w] EXCEPT
                           !.at = "exec",
                           !.after = IF workers[w].requested THEN @ + 1 ELSE @])

\* _decode_and_execute, the return of not halted, and the rest of the body
WorkerExec(w) ==
    /\ workers[w].at = "exec"
    /\ WorkerStep(w, _decode_and_execute(St),
                  IF _decode_and_execute(St).halted
                  THEN [workers[w] EXCEPT !.at = "end"]
                  ELSE [workers[w] EXCEPT !.at = "test", !.count = @ + 1])

\* the code after the loop
WorkerEnd(w) ==
    /\ workers[w].at = "end"
    /\ WorkerStep(w, run_program_end(St, workers[w].count, workers[w].max),
                  returns(workers[w],
                          run_program_end_ret(St, workers[w].count,
                                              workers[w].max)))

WorkerRuns ==
    \E w \in Workers :
        \/ WorkerCall(w) \/ WorkerTest(w) \/ WorkerBreak(w)
        \/ WorkerFetch(w) \/ WorkerExec(w) \/ WorkerEnd(w)

\* -- a run and the thread that asks it to stop ----------------------------
CancelPrograms == {ProgLoop, ProgSum}
CancelBreakpoints == {{}, {2}}
CancelBudgets == {2, default_max_instructions}

SetUpCancel ==
    Fresh /\ \E code \in CancelPrograms, B \in CancelBreakpoints :
        SetUp(set_breakpoints(load_binary_program(Constructed, code, 0), B))

\* a thread calls run_program(max_instructions)
CallRun ==
    /\ ret.op = "setUp"
    /\ workers[1] = NoWorker
    /\ \E max \in CancelBudgets :
           workers' = [workers EXCEPT
                          ![1] = [NoWorker EXCEPT !.at = "call", !.max = max]]
    /\ UNCHANGED <<ac, pc, ir, mar, mdr, msr, overflow, running, halted,
                   data_switches, run_stop, memory_banks, current_bank,
                   num_banks, flag, input_queue, output_buffer, switch_value,
                   display_value, tape_data, read_position, punch_data,
                   breakpoints, labels, errors, TextVars, LoopVars,
                   running_program, run_stop_var, main_at, ret, calls>>

\* the runs that have been started and have not returned
Started == {w \in Workers : workers[w].at # "none"}

\* another thread calls cpu.stop() or cpu.set_run_stop(False) while the run
\* is in progress
StopRequest ==
    /\ Started # {}
    /\ \A w \in Started : ~workers[w].requested
    /\ \/ Commit(stop(St)) /\ ret' = Returned("stop", TRUE, "", 0)
       \/ Commit(set_run_stop(St, FALSE))
          /\ ret' = Returned("set_run_stop", TRUE, "", 0)
    /\ workers' = [w \in Workers |->
                      IF w \in Started
                      THEN [workers[w] EXCEPT !.requested = TRUE]
                      ELSE workers[w]]
    /\ UNCHANGED <<LoopVars, running_program, run_stop_var, main_at, calls,
                   TextVars>>

NextCancel == SetUpCancel \/ CallRun \/ StopRequest \/ WorkerRuns

SpecCancel == Init /\ [][NextCancel]_vars

----------------------------------------------------------------------------
(* MICRO2_GUI: the handlers of the buttons run one after the other on the  *)
(* main thread and call the facade; START in RUN mode and CONTINUE start a *)
(* thread that calls run_program().  A handler is one step, except that    *)
(* single_step is followed through the two halves of execute_instruction.  *)
(* A behaviour handles at most MaxPresses button presses.                  *)

MaxPresses == 3

\* CLR / HLT
ProgClrHalt == <<192, 198>>
GuiPrograms == {ProgLoop, ProgClrHalt}
GuiSwitches == {5}

\* a program is loaded and the data switches are set
SetUpGui ==
    Fresh /\ \E code \in GuiPrograms, value \in GuiSwitches :
        SetUp(set_data_switches(load_binary_program(Constructed, code, 0),
                                value))

\* a handler that leaves the machine in state t and has the facade return r
Handler(t, r) ==
    /\ ret # NoCall
    /\ main_at = "idle"
    /\ calls < MaxPresses
    /\ Commit(t)
    /\ ret' = r
    /\ calls' = calls + 1
    /\ UNCHANGED <<LoopVars, TextVars>>

toggle_run_stop ==
    /\ Handler(set_run_stop(St, ~run_stop_var),
               Returned("set_run_stop_switch", TRUE, "", 0))
    /\ run_stop_var' = ~run_stop_var
    /\ UNCHANGED <<running_program, main_at, workers>>

gui_load_address ==
    /\ Handler(load_address(St), Returned("press_load_address", TRUE, "", 0))
    /\ UNCHANGED ThreadVars

gui_load_data ==
    /\ Handler(load_data(St), Returned("press_load_data", TRUE, "", 0))
    /\ UNCHANGED ThreadVars

gui_display_memory ==
    /\ Handler(display_memory(St), Returned("press_display", TRUE, "", 0))
    /\ UNCHANGED ThreadVars

\* the thread that threading.Thread(target=self.run_program_thread) starts
NewThread ==
    [NoWorker EXCEPT !.at = "call", !.max = default_max_instructions,
                     !.gui = TRUE]

FreeWorkers == {w \in Workers : workers[w].at = "none"}

start_continuous_execution ==
    /\ Handler(St, ret)
    /\ IF ~running_program
       THEN /\ FreeWorkers # {}
            /\ running_program' = TRUE
            /\ workers' = [workers EXCEPT ![Min(FreeWorkers)] = NewThread]
       ELSE UNCHANGED <<running_program, workers>>
    /\ UNCHANGED <<run_stop_var, main_at>>

\* emulator.single_step() up to the decoding of the fetched instruction
single_step_begins ==
    /\ IF halted \/ pc \in breakpoints
       THEN Handler(St, single_step_ret(St)) /\ UNCHANGED main_at
       ELSE Handler(fetch(St), ret) /\ main_at' = "exec"
    /\ UNCHANGED <<running_program, run_stop_var, workers>>

\* the rest of emulator.single_step()
single_step_ends ==
    /\ main_at = "exec"
    /\ Commit(_decode_and_execute(St))
    /\ ret' = IF _decode_and_execute(St).halted
              THEN Returned("single_step", FALSE, "CPU halted", 0)
              ELSE Returned("single_step", TRUE, "Instruction executed", 0)
    /\ main_at' = "idle"
    /\ UNCHANGED <<LoopVars, TextVars, running_program, run_stop_var,
                   workers, calls>>

start_step ==
    IF run_stop_var THEN start_continuous_execution ELSE single_step_begins

debug_single_step == single_step_begins

debug_continue == start_continuous_execution

reset_emulator ==
    /\ Handler(reset(St), Returned("reset", TRUE, "", 0))
    /\ running_program' = FALSE
    /\ run_stop_var' = FALSE
    /\ UNCHANGED <<main_at, workers>>

\* run_program_thread once run_program has returned
run_program_thread_ends ==
    \E w \in Workers :
        /\ workers[w].at = "returned"
        /\ running_program' = FALSE
        /\ workers' = [workers EXCEPT ![w].at = "none"]
        /\ UNCHANGED <<ac, pc, ir, mar, mdr, msr, overflow, running, halted,
                       data_switches, run_stop, memory_banks, current_bank,
                       num_banks, flag, input_queue, output_buffer,
                       switch_value, display_value, tape_data, read_position,
                       punch_data, breakpoints, labels, errors, TextVars,
                       LoopVars, run_stop_var, main_at, ret, calls>>

NextGui ==
    \/ SetUpGui
    \/ toggle_run_stop \/ gui_load_address \/ gui_load_data
    \/ gui_display_memory
    \/ start_step \/ debug_single_step \/ debug_continue
    \/ single_step_ends \/ reset_emulator
    \/ WorkerRuns \/ run_program_thread_ends

SpecGui == Init /\ [][NextGui]_vars

----------------------------------------------------------------------------
(* Whole programs: the counting loop of test_assembly_to_execution and the *)
(* 'Simple Loop' example are assembled and loaded into a freshly built     *)
(* machine and run with the default budget; after the run has returned a   *)
(* counting loop may be loaded over the old program, without a reset, and  *)
(* run.  run_program is followed through every iteration of its loop.      *)

\* the source text of the test up to, and after, the operand of DATA 253
CountHead ==
    <<"\n", " ", " ", " ", " ", " ", " ", " ", " ", "#", " ", "C", "o", "u",
      "n", "t", " ", "f", "r", "o", "m", " ", "1", " ", "t", "o", " ", "3",
      "\n", " ", " ", " ", " ", " ", " ", " ", " ", "C", "L", "R", "\n", " ",
      " ", " ", " ", " ", " ", " ", " ", "S", "T", "R", " ", "2", "0", " ",
      " ", " ", " ", " ", " ", " ", " ", " ", " ", "#", " ", "I", "n", "i",
      "t", "i", "a", "l", "i", "z", "e", " ", "c", "o", "u", "n", "t", "e",
      "r", "\n", " ", " ", " ", " ", " ", " ", " ", " ", "\n", " ", " ", " ",
      " ", " ", " ", " ", " ", "L", "O", "O", "P", ":", "\n", " ", " ", " ",
      " ", " ", " ", " ", " ", "A", "D", "D", " ", "2", "1", " ", " ", " ",
      " ", " ", " ", " ", " ", " ", " ", "#", " ", "A", "d", "d", " ", "1",
      "\n", " ", " ", " ", " ", " ", " ", " ", " ", "S", "T", "R", " ", "2",
      "0", " ", " ", " ", " ", " ", " ", " ", " ", " ", " ", "#", " ", "U",
      "p", "d", "a", "t", "e", " ", "c", "o", "u", "n", "t", "e", "r", "\n",
      " ", " ", " ", " ", " ", " ", " ", " ", "O", "U", "T", " ", "4", " ",
      " ", " ", " ", " ", " ", " ", " ", " ", " ", " ", "#", " ", "D", "i",
      "s", "p", "l", "a", "y", " ", "o", "n", " ", "L", "E", "D", "s", "\n",
      " ", " ", " ", " ", " ", " ", " ", " ", "\n", " ", " ", " ", " ", " ",
      " ", " ", " ", "#", " ", "C", "h", "e", "c", "k", " ", "i", "f", " ",
      "d", "o", "n", "e", " ", "(", "c", "o", "u", "n", "t", " ", "=", "=",
      " ", "3", ")", "\n", " ", " ", " ", " ", " ", " ", " ", " ", "S", "T",
      "R", " ", "2", "2", " ", " ", " ", " ", " ", " ", " ", " ", " ", " ",
      "#", " ", "S", "a", "v", "e", " ", "f", "o", "r", " ", "c", "o", "m",
      "p", "a", "r", "i", "s", "o", "n", "\n", " ", " ", " ", " ", " ", " ",
      " ", " ", "A", "D", "D", " ", "2", "3", " ", " ", " ", " ", " ", " ",
      " ", " ", " ", " ", "#", " ", "A", "d", "d", " ", "-", "3", "\n", " ",
      " ", " ", " ", " ", " ", " ", " ", "S", "N", "A", " ", " ", " ", " ",
      " ", " ", " ", " ", " ", " ", " ", " ", " ", "#", " ", "S", "k", "i",
      "p", " ", "i", "f", " ", "n", "o", "t", " ", "z", "e", "r", "o", "\n",
      " ", " ", " ", " ", " ", " ", " ", " ", "J", "M", "P", " ", "E", "N",
      "D", " ", " ", " ", " ", " ", " ", " ", " ", " ", "#", " ", "E", "x",
      "i", "t", " ", "i", "f", " ", "z", "e", "r", "o", " ", "(", "c", "o",
      "u", "n", "t", " ", "=", "=", " ", "3", ")", "\n", " ", " ", " ", " ",
      " ", " ", " ", " ", "\n", " ", " ", " ", " ", " ", " ", " ", " ", "C",
      "L", "R", "\n", " ", " ", " ", " ", " ", " ", " ", " ", "A", "D", "D",
      " ", "2", "0", " ", " ", " ", " ", " ", " ", " ", " ", " ", " ", "#",
      " ", "R", "e", "l", "o", "a", "d", " ", "c", "o", "u", "n", "t", "e",
      "r", "\n", " ", " ", " ", " ", " ", " ", " ", " ", "J", "M", "P", " ",
      "L", "O", "O", "P", " ", " ", " ", " ", " ", " ", " ", " ", "#", " ",
      "C", "o", "n", "t", "i", "n", "u", "e", "\n", " ", " ", " ", " ", " ",
      " ", " ", " ", "\n", " ", " ", " ", " ", " ", " ", " ", " ", "E", "N",
      "D", ":", "\n", " ", " ", " ", " ", " ", " ", " ", " ", "H", "L", "T",
      "\n", " ", " ", " ", " ", " ", " ", " ", " ", "\n", " ", " ", " ", " ",
      " ", " ", " ", " ", "#", " ", "D", "a", "t", "a", "\n", " ", " ", " ",
      " ", " ", " ", " ", " ", "O", "R", "G", " ", "2", "0", "\n", " ", " ",
      " ", " ", " ", " ", " ", " ", "D", "A", "T", "A", " ", "0", " ", " ",
      " ", " ", " ", " ", " ", " ", " ", " ", "#", " ", "C", "o", "u", "n",
      "t", "e", "r", "\n", " ", " ", " ", " ", " ", " ", " ", " ", "D", "A",
      "T", "A", " ", "1", " ", " ", " ", " ", " ", " ", " ", " ", " ", " ",
      "#", " ", "I", "n", "c", "r", "e", "m", "e", "n", "t", "\n", " ", " ",
      " ", " ", " ", " ", " ", " ", "D", "A", "T", "A", " ", "0", " ", " ",
      " ", " ", " ", " ", " ", " ", " ", " ", "#", " ", "T", "e", "m", "p",
      "\n", " ", " ", " ", " ", " ", " ", " ", " ", "D", "A", "T", "A", " ">>

CountTail ==
    <<" ", " ", " ", " ", " ", " ", " ", " ", "#", " ", "-", "3", " ", "i",
      "n", " ", "t", "w", "o", "'", "s", " ", "c", "o", "m", "p", "l", "e",
      "m", "e", "n", "t", "\n", " ", " ", " ", " ", " ", " ", " ", " ">>

\* the counting loop that stops at k: its last word is 256 - k
CountSource(k) == CountHead \o str(256 - k) \o CountTail

CountTargets == 1..6

\* MICRO2_Examples.examples['simple_loop']['code']
SimpleLoopSource ==
    <<"\n", "#", " ", "S", "i", "m", "p", "l", "e", " ", "c", "o", "u", "n",
      "t", "i", "n", "g", " ", "l", "o", "o", "p", " ", "-", " ", "c", "o",
      "u", "n", "t", " ", "f", "r", "o", "m", " ", "1", " ", "t", "o", " ",
      "5", "\n", "C", "L", "R", " ", " ", " ", " ", " ", " ", " ", " ", " ",
      " ", "#", " ", "C", "l", "e", "a", "r", " ", "c", "o", "u", "n", "t",
      "e", "r", "\n", "S", "T", "R", " ", "2", "0", " ", " ", " ", " ", " ",
      " ", " ", "#", " ", "S", "t", "o", "r", "e", " ", "i", "n", "i", "t",
      "i", "a", "l", " ", "c", "o", "u", "n", "t", " ", "(", "0", ")", "\n",
      "\n", "L", "O", "O", "P", ":", "\n", "A", "D", "D", " ", "2", "1", " ",
      " ", " ", " ", " ", " ", " ", "#", " ", "A", "d", "d", " ", "1", " ",
      "t", "o", " ", "c", "o", "u", "n", "t", "e", "r", "\n", "S", "T", "R",
      " ", "2", "0", " ", " ", " ", " ", " ", " ", " ", "#", " ", "U", "p",
      "d", "a", "t", "e", " ", "c", "o", "u", "n", "t", "e", "r", "\n", "S",
      "T", "R", " ", "2", "2", " ", " ", " ", " ", " ", " ", " ", "#", " ",
      "A", "l", "s", "o", " ", "s", "t", "o", "r", "e", " ", "f", "o", "r",
      " ", "c", "o", "m", "p", "a", "r", "i", "s", "o", "n", "\n", "A", "D",
      "D", " ", "2", "3", " ", " ", " ", " ", " ", " ", " ", "#", " ", "A",
      "d", "d", " ", "-", "5", " ", "(", "t", "o", " ", "c", "h", "e", "c",
      "k", " ", "i", "f", " ", "w", "e", "'", "v", "e", " ", "r", "e", "a",
      "c", "h", "e", "d", " ", "5", ")", "\n", "S", "N", "A", " ", " ", " ",
      " ", " ", " ", " ", " ", " ", " ", "#", " ", "S", "k", "i", "p", " ",
      "i", "f", " ", "r", "e", "s", "u", "l", "t", " ", "i", "s", " ", "n",
      "o", "n", "-", "z", "e", "r", "o", " ", "(", "n", "o", "t", " ", "r",
      "e", "a", "c", "h", "e", "d", " ", "5", ")", "\n", "J", "M", "P", " ",
      "E", "N", "D", " ", " ", " ", " ", " ", " ", "#", " ", "I", "f", " ",
      "z", "e", "r", "o", ",", " ", "w", "e", "'", "v", "e", " ", "c", "o",
      "u", "n", "t", "e", "d", " ", "t", "o", " ", "5", ",", " ", "e", "x",
      "i", "t", "\n", "C", "L", "R", " ", " ", " ", " ", " ", " ", " ", " ",
      " ", " ", "#", " ", "C", "l", "e", "a", "r", " ", "f", "o", "r", " ",
      "n", "e", "x", "t", " ", "i", "t", "e", "r", "a", "t", "i", "o", "n",
      " ", " ", "\n", "J", "M", "P", " ", "L", "O", "O", "P", " ", " ", " ",
      " ", " ", "#", " ", "C", "o", "n", "t", "i", "n", "u", "e", " ", "l",
      "o", "o", "p", "\n", "\n", "E", "N", "D", ":", "\n", "C", "L", "R",
      "\n", "A", "D", "D", " ", "2", "0", " ", " ", " ", " ", " ", " ", " ",
      "#", " ", "L", "o", "a", "d", " ", "f", "i", "n", "a", "l", " ", "c",
      "o", "u", "n", "t", "\n", "O", "U", "T", " ", "4", " ", " ", " ", " ",
      " ", " ", " ", " ", "#", " ", "D", "i", "s", "p", "l", "a", "y", " ",
      "o", "n", " ", "L", "E", "D", "s", "\n", "H", "L", "T", "\n", "\n",
      "#", " ", "D", "a", "t", "a", " ", "s", "e", "c", "t", "i", "o", "n",
      "\n", "O", "R", "G", " ", "2", "0", "\n", "D", "A", "T", "A", " ", "0",
      " ", " ", " ", " ", " ", " ", " ", "#", " ", "C", "o", "u", "n", "t",
      "e", "r", " ", "s", "t", "o", "r", "a", "g", "e", "\n", "D", "A", "T",
      "A", " ", "1", " ", " ", " ", " ", " ", " ", " ", "#", " ", "I", "n",
      "c", "r", "e", "m", "e", "n", "t", " ", "v", "a", "l", "u", "e", "\n",
      "D", "A", "T", "A", " ", "0", " ", " ", " ", " ", " ", " ", " ", "#",
      " ", "T", "e", "m", "p", " ", "s", "t", "o", "r", "a", "g", "e", "\n",
      "D", "A", "T", "A", " ", "2", "5", "1", " ", " ", " ", " ", " ", "#",
      " ", "-", "5", " ", "i", "n", " ", "t", "w", "o", "'", "s", " ", "c",
      "o", "m", "p", "l", "e", "m", "e", "n", "t", " ", "(", "2", "5", "6",
      "-", "5", ")", "\n", " ", " ", " ", " ", " ", " ", " ", " ", " ", " ",
      " ", " ">>

ExampleSources == {CountSource(k) : k \in CountTargets} \cup {SimpleLoopSource}
ReloadSources == {CountSource(1), CountSource(3)}

\* emulator.load_assembly_program(source)
LoadsExample(source) ==
    /\ Commit(load_assembly_program(St, source, 0))
    /\ ret' = load_assembly_program_ret(source)
    /\ source_code' = source
    /\ machine_code' = assemble(source).machine_code
    /\ UNCHANGED <<RunVars, disasm, analysis, calls>>

LoadExample == Fresh /\ \E source \in ExampleSources : LoadsExample(source)

\* a second program is loaded once the run of the first has returned
ReloadExample ==
    /\ ret.op = "run_program" /\ run_pc = "idle" /\ calls = 1
    /\ \E source \in ReloadSources : LoadsExample(source)

\* emulator.run_program() on the program just loaded
RunExample ==
    /\ ret.op = "load_assembly_program" /\ ret.ok
    /\ run_program_call(default_max_instructions)

NextExamples ==
    LoadExample \/ ReloadExample \/ RunExample \/ run_program_iteration

SpecExamples == Init /\ [][NextExamples]_vars

\* the counting loops alone
LoadCount ==
    Fresh /\ \E k \in CountTargets : LoadsExample(CountSource(k))

NextCount == LoadCount \/ RunExample \/ run_program_iteration

\* run_program is a loop of one thread: once called it goes on until it
\* returns, and the caller of load_assembly_program calls it next
\* weak fairness of run_program_iteration, which is enabled exactly while
\* run_pc = "loop": the thread inside run_program takes its next iteration
IterationIsFair ==
    []<>(run_pc # "loop") \/ []<><<run_program_iteration>>_vars

SpecCount ==
    /\ Init /\ [][NextCount]_vars
    /\ WF_vars(RunExample) /\ IterationIsFair

----------------------------------------------------------------------------
(* Program analysis: words are written into the selected bank of a freshly *)
(* built machine and the facade's analyze_program is called.               *)

AnalysisWords == {1, 198}
AnalysisBanks == {0, 1}

\* the bank images: nothing written, or w written at address a (and at b)
SetUpAnalysis ==
    Fresh /\ \E cur \in AnalysisBanks :
        \/ SetUp([Constructed EXCEPT !.current_bank = cur])
        \/ \E a \in Addrs, w \in AnalysisWords :
               SetUp(write([Constructed EXCEPT !.current_bank = cur], a, w))
        \/ \E a \in {0, 5}, b \in {0, 9, 255}, w \in AnalysisWords :
               SetUp(write(write([Constructed EXCEPT !.current_bank = cur],
                                 a, w), b, w))

\* emulator.analyze_program()
AnalyzeProgram ==
    /\ ret.op = "setUp"
    /\ analysis' = analyze_program(St)
    /\ ret' = Returned("analyze_program", TRUE, "", 0)
    /\ UNCHANGED <<ac, pc, ir, mar, mdr, msr, overflow, running, halted,
                   data_switches, run_stop, memory_banks, current_bank,
                   num_banks, flag, input_queue, output_buffer, switch_value,
                   display_value, tape_data, read_position, punch_data,
                   breakpoints, labels, errors, source_code, machine_code,
                   disasm, RunVars, calls>>

NextAnalysis == SetUpAnalysis \/ AnalyzeProgram

SpecAnalysis == Init /\ [][NextAnalysis]_vars

----------------------------------------------------------------------------
(* The assembler and the disassembler on their own, as the unit tests      *)
(* drive them: one source text is assembled by a freshly built             *)
(* MICRO2_Assembler, and the first word of the result is handed to         *)
(* MICRO2_Disassembler.disassemble_instruction.                            *)

MaxLines == 3

\* the lines programs are built from: a blank line, a # comment, an ORG
\* line, a label-only line, a label with an instruction, a label with only
\* a trailing comment, an instruction, a reference to a label, and a line
\* with an unknown mnemonic
SourceLines ==
    {<<>>, <<"#", " ", "n", "o", "t", "e">>, <<"O", "R", "G", " ", "4">>, <<"L", ":">>, <<"M", ":", " ", "H", "L", "T">>,
     <<"N", ":", " ", "#", " ", "h", "e", "r", "e">>, <<"C", "L", "R">>, <<"J", "M", "P", " ", "N">>, <<"H", "A", "L", "T">>}

\* lines with one fault each: unknown mnemonic, wrong arity (twice), a
\* malformed hexadecimal and a malformed binary literal, a malformed
\* decimal, values out of range, an undefined label, ORG beyond memory and
\* ORG without address
FaultyLines ==
    {<<"H", "A", "L", "T">>, <<"C", "L", "R", " ", "1">>, <<"J", "M", "P">>,
     <<"D", "A", "T", "A", " ", "0", "x", "Z", "Z">>, <<"A", "D", "D", " ", "0", "b", "2">>, <<"S", "T", "R", " ", "1", "x">>,
     <<"D", "A", "T", "A", " ", "2", "5", "6">>, <<"J", "M", "P", " ", "3", "2">>, <<"I", "N", "P", " ", "8">>,
     <<"J", "M", "P", " ", "Q">>, <<"O", "R", "G", " ", "3", "0", "0">>, <<"O", "R", "G">>}

\* "\n".join(lines)
RECURSIVE join(_)
join(lines) ==
    IF lines = <<>> THEN <<>>
    ELSE IF Len(lines) = 1 THEN lines[1]
    ELSE lines[1] \o <<"\n">> \o join(Tail(lines))

SourceListings == UNION {[1..n -> SourceLines] : n \in 1..MaxLines}

\* a faulty line alone, after a good line, and before one
FaultySources ==
    FaultyLines
    \cup {join(<<<<"C", "L", "R">>, line>>) : line \in FaultyLines}
    \cup {join(<<line, <<"H", "L", "T">>>>) : line \in FaultyLines}

\* the decimal numerals of 0..31, written out
Numerals ==
    <<
       <<"0">>, <<"1">>, <<"2">>, <<"3">>,
       <<"4">>, <<"5">>, <<"6">>, <<"7">>,
       <<"8">>, <<"9">>, <<"1", "0">>, <<"1", "1">>,
       <<"1", "2">>, <<"1", "3">>, <<"1", "4">>, <<"1", "5">>,
       <<"1", "6">>, <<"1", "7">>, <<"1", "8">>, <<"1", "9">>,
       <<"2", "0">>, <<"2", "1">>, <<"2", "2">>, <<"2", "3">>,
       <<"2", "4">>, <<"2", "5">>, <<"2", "6">>, <<"2", "7">>,
       <<"2", "8">>, <<"2", "9">>, <<"3", "0">>, <<"3", "1">>>>

OperandFree ==
    {<<"C", "L", "R">>, <<"C", "M", "P">>, <<"R", "T", "L">>, <<"R", "T", "R">>, <<"O", "R", "S">>,
     <<"N", "O", "P">>, <<"H", "L", "T">>, <<"S", "N", "O">>, <<"S", "N", "A">>, <<"S", "Z", "S">>}

\* OP n for OP in JMP, STR, ADD and n in 0..31
DirectReferences ==
    {op \o <<" ">> \o Numerals[n + 1] :
        op \in {<<"J", "M", "P">>, <<"S", "T", "R">>, <<"A", "D", "D">>}, n \in 0..31}

\* other spellings of single instructions: lower case, indirect operands,
\* hexadecimal and binary literals, device instructions, data words
OtherInstructions ==
    {<<"h", "l", "t">>, <<"j", "m", "p", " ", "7">>, <<"A", "D", "D", " ", "*", "5">>, <<"S", "T", "R", " ", "(", "3", "1", ")">>,
     <<"J", "M", "P", " ", "0", "x", "1", "F">>, <<"A", "D", "D", " ", "0", "b", "1", "0", "1">>, <<"S", "T", "R", " ", "0", "7">>,
     <<"S", "F", "G", " ", "1">>, <<"I", "N", "P", " ", "2">>, <<"O", "U", "T", " ", "7">>,
     <<"D", "A", "T", "A", " ", "2", "5", "5">>, <<"D", "A", "T", "A", " ", "0", "x", "C", "7">>}

AsmSources ==
    {join(lines) : lines \in SourceListings}
    \cup FaultySources \cup OperandFree \cup DirectReferences
    \cup OtherInstructions

\* assembler.assemble(source) on a fresh assembler has left r
Assembles(source, r) ==
    /\ Commit([St EXCEPT !.labels = r.labels, !.errors = r.errors])
    /\ source_code' = source
    /\ machine_code' = r.machine_code
    /\ ret' = IF r.raised # ""
              THEN Returned("assemble", FALSE, r.raised, 0)
              ELSE Returned("assemble", TRUE, "", Len(r.machine_code))
    /\ UNCHANGED <<RunVars, disasm, analysis, calls>>

Assemble ==
    Fresh /\ \E source \in AsmSources : Assembles(source, assemble(source))

\* disassembler.disassemble_instruction(machine_code[0])
Disassemble ==
    /\ ret.op = "assemble" /\ ret.ok /\ machine_code # <<>>
    /\ disasm' = disassemble_instruction(machine_code[1])
    /\ ret' = Returned("disassemble_instruction", TRUE, "", machine_code[1])
    /\ Commit(St)
    /\ UNCHANGED <<RunVars, source_code, machine_code, analysis, calls>>

NextAsm == Assemble \/ Disassemble

SpecAsm == Init /\ [][NextAsm]_vars

----------------------------------------------------------------------------
(* Claims                                                                  *)

\* the instruction the next execute_instruction fetches, and its fields
Fetched == memory_banks[current_bank][pc % 256]
IsJMP(w) == w \in 0..63
IsSTR(w) == w \in 64..127
IsADD(w) == w \in 128..191
IsDirect(w) == w \in 0..191 /\ (w \div 32) % 2 = 0
IsIndirect(w) == w \in 0..191 /\ (w \div 32) % 2 = 1

\* this step is one instruction cycle of a CPU that is not halted
Executes == ~halted /\ ret'.op = "execute_instruction"

\* what JMP, STR and ADD do with the effective address ea
UsesAddress(w, ea) ==
    /\ mar' = ea
    /\ IsJMP(w) => pc' = ea
    /\ IsSTR(w) => memory_banks' =
                       [memory_banks EXCEPT ![current_bank][ea] = ac]
    /\ IsADD(w) => ac' = (ac + memory_banks[current_bank][ea]) % 256

\* C1: word-width closure -- in every state reachable through the facade
\* (reset, loads with any start address, step, run, the front panel,
\* set_data_switches, OUT 0) AC, PC, IR, MAR, MDR and data_switches are in
\* 0..255, MSR is in 0..15 and every cell of every bank is in 0..255.
C1_WordWidthClosure ==
    /\ ac \in Word /\ pc \in Word /\ ir \in Word
    /\ mar \in Word /\ mdr \in Word /\ data_switches \in Word
    /\ msr \in 0..15
    /\ \A b \in Banks : \A a \in Addrs : memory_banks[b][a] \in Word

\* C2: a direct JMP/STR/ADD fetched from address p, with 5-bit field a5, uses
\* the effective address (p & 0xE0) | a5 -- the instruction's own page, also
\* for the last word of a page and for p = 255 where PC wraps to 0.
C2_DirectSamePage ==
    [][Executes /\ IsDirect(Fetched)
         => UsesAddress(Fetched, (pc \div 32) * 32 + (Fetched % 32))]_vars

\* a direct STR fetched from address 255 has stored AC in the last page
C2_Witness ==
    /\ ret.op = "execute_instruction"
    /\ IsSTR(ir) /\ IsDirect(ir)
    /\ pc = 0 /\ mar = 224 + (ir % 32)
    /\ memory_banks[current_bank][mar] = 90

\* C3: an indirect JMP/STR/ADD uses the full 8-bit content of cell a5 as its
\* effective address, whatever page the instruction is in.
C3_IndirectFullPointer ==
    [][Executes /\ IsIndirect(Fetched)
         => /\ UsesAddress(Fetched, memory_banks[current_bank][Fetched % 32])
            /\ mdr' = memory_banks[current_bank][Fetched % 32]]_vars

\* an indirect JMP in page 6 has jumped through cell 7 to address 255
C3_Witness ==
    /\ ret.op = "execute_instruction"
    /\ ir = 39 /\ mar = 255 /\ pc = 255 /\ mdr = 255
    /\ memory_banks[current_bank][7] = 255
    /\ memory_banks[current_bank][200] = 39


\* the condition under which the fetched word w skips the next instruction
DeviceFlagSet(d) == d \in Devices /\ flag[d]
Skips(w) ==
    \/ w = 200 /\ ~overflow
    \/ w = 201 /\ ac # 0
    \/ w = 202 /\ ac < 128
    \/ w \in 208..215 /\ DeviceFlagSet(w % 8)

\* C4: one step of a CPU that is not halted, on any instruction other than
\* JMP, leaves PC' = (PC + 1) mod 256 when no skip fires and
\* PC' = (PC + 2) mod 256 exactly when the condition of a skip instruction
\* holds (SNO: no overflow; SNA: AC # 0; SZS: bit 7 of AC is 0; SFG d: the
\* flag of device d is set).
C4_PCAdvance ==
    [][Executes /\ ~IsJMP(Fetched)
         => pc' = (pc + (IF Skips(Fetched) THEN 2 ELSE 1)) % 256]_vars

\* SZS fetched from address 254 with AC = 0x7F has skipped and PC wrapped
C4_Witness ==
    /\ ret.op = "execute_instruction"
    /\ ir = 202 /\ mar = 254 /\ ac = 127 /\ pc = 0

\* C5: after ADD the accumulator is (AC + m) mod 256 and overflow is true
\* iff AC + m > 255, whatever overflow was before.
C5_AddArithmetic ==
    [][Executes /\ IsADD(Fetched)
         => LET m == memory_banks'[current_bank][mar']
            IN /\ ac' = (ac + m) % 256
               /\ overflow' = (ac + m > 255)
               /\ m = memory_banks[current_bank][mar']]_vars

\* an ADD without carry, 100 + 50, has cleared an overflow that was set
C5_Witness ==
    /\ ret.op = "execute_instruction"
    /\ ir = 144 /\ mar = 16 /\ memory_banks[0][16] = 50
    /\ ac = 150 /\ ~overflow /\ pc = 1

\* C6: SNO skips iff overflow was false before it and leaves overflow false;
\* a SNO executed right after a SNO always skips.
C6_OverflowConsumption ==
    [][Executes /\ Fetched = 200
         => /\ ~overflow'
            /\ pc' = (pc + (IF overflow THEN 1 ELSE 2)) % 256
            /\ (ret.op = "execute_instruction" /\ ir = 200)
                   => pc' = (pc + 2) % 256]_vars

\* after 100 + 200 the first SNO did not skip and the second one did
C6_Witness ==
    /\ ret.op = "execute_instruction"
    /\ ir = 200 /\ mar = 2 /\ pc = 4
    /\ ac = 44 /\ ~overflow

\* bit i of the word x
Bit(x, i) == (x \div (2 ^ i)) % 2

C8_DeviceZeroNoOp ==
    [][Executes /\ Fetched \in {208, 224}
         => /\ ac' = ac /\ overflow' = overflow /\ msr' = msr
            /\ memory_banks' = memory_banks
            /\ current_bank' = current_bank
            /\ pc' = (pc + 1) % 256]_vars

Selects(i) == ret.op = "setUp" /\ ret' = Returned("set_bank", TRUE, "", i)

\* C10: selecting an inactive bank (set_bank(i) with i >= n_active, or OUT 0
\* with AC & 0x0F >= n_active) leaves the current bank and all memory as
\* they were; with one active bank a machine on bank 0 stays on bank 0.
C10_InactiveBankIgnored ==
    [][/\ \A i \in BankRequests :
             Selects(i) /\ i >= num_banks
                 => /\ current_bank' = current_bank
                    /\ memory_banks' = memory_banks
       /\ Executes /\ Fetched = 240 /\ ac % 16 >= num_banks
             => /\ current_bank' = current_bank
                /\ memory_banks' = memory_banks
                /\ ~halted'
       /\ (num_banks = 1 /\ current_bank = 0
             /\ ((\E i \in BankRequests : Selects(i))
                    \/ (Executes /\ Fetched = 240)))
             => current_bank' = 0]_vars

\* set_bank(5) with 2 banks active has left the machine on bank 1
C10_Witness ==
    /\ ret = Returned("set_bank", TRUE, "", 5)
    /\ num_banks = 2 /\ current_bank = 1

\* this step writes into memory: STR, LOAD DATA, a program load or a clear
WritesMemory ==
    \/ Executes /\ IsSTR(Fetched)
    \/ ret'.op \in {"load_data", "load_program", "clear_memory"}

\* C11: bank isolation -- with two or more banks active every write (STR,
\* LOAD DATA, program load, clear) made while bank i is current leaves every
\* cell of every other bank unchanged, OUT 0 changes no cell at all, and the
\* fetch after a switch reads the cell of the bank that is then current, so
\* after switching away and back each bank reads what was last written to it.
C11_BankIsolation ==
    [][num_banks >= 2 =>
         /\ WritesMemory =>
                \A b \in Banks \ {current_bank} :
                    memory_banks'[b] = memory_banks[b]
         /\ Executes /\ Fetched = 240 => memory_banks' = memory_banks
         /\ Executes => ir' = memory_banks[current_bank][pc]]_vars

\* bank 0 got AC = 16 + t in cell 16, bank t got twice that, and back on
\* bank 0 the ADD 16 has read the word written to bank 0
C11_Witness ==
    /\ ret.op = "execute_instruction" /\ ir = 144 /\ pc = 7
    /\ current_bank = 0 /\ msr = 0 /\ num_banks = 4
    /\ ac = 19 /\ memory_banks[0][16] = 19 /\ memory_banks[3][16] = 38
    /\ memory_banks[1][16] = 11 /\ memory_banks[2][16] = 12

\* the state after the fetch: MAR = PC, IR = the word at PC, PC + 1
AfterFetch == [St EXCEPT !.mar = pc, !.ir = Fetched, !.pc = (pc + 1) % 256]

\* the encoding table: what the word w does to the state f after the fetch
Encoded(w, f) ==
    CASE w \in 0..63 -> _execute_memory_reference(f, 0)
      [] w \in 64..127 -> _execute_memory_reference(f, 1)
      [] w \in 128..191 -> _execute_memory_reference(f, 2)
      [] w = 192 -> _clr(f) [] w = 193 -> _cmp(f) [] w = 194 -> _rtl(f)
      [] w = 195 -> _rtr(f) [] w = 196 -> _ors(f) [] w = 197 -> _nop(f)
      [] w = 198 -> _hlt(f)
      [] w = 200 -> _sno(f) [] w = 201 -> _sna(f) [] w = 202 -> _szs(f)
      [] w \in 208..215 -> _sfg(f)
      [] w \in 224..231 -> _inp(f)
      [] w \in 240..247 -> _out(f)
      [] OTHER -> f

\* the words the encoding table does not assign
Unassigned == {199} \cup 203..207 \cup 216..223 \cup 232..239 \cup 248..255

\* C12: decode totality -- every word 0..255 is dispatched as the encoding
\* table says, and every word outside the table acts as NOP: only PC + 1,
\* IR and MAR change, the CPU does not halt and the step succeeds.
C12_DecodeTotality ==
    [][Executes =>
         /\ Fetched \in Word
         /\ St' = Encoded(Fetched, AfterFetch)
         /\ Fetched \in Unassigned =>
                /\ St' = AfterFetch
                /\ ~halted' /\ ret'.ok]_vars

\* the unassigned word 0xDB (SFG's group with bit 3 set, device 3 ready)
\* fetched at 255 has done nothing but the fetch
C12_Witness ==
    /\ ret.op = "execute_instruction" /\ ret.ok
    /\ ir = 219 /\ mar = 255 /\ pc = 0 /\ flag[3]
    /\ ac = 85 /\ overflow /\ ~halted

\* this step of run_program, or this single_step, executes an instruction
RunExecutes ==
    /\ run_pc = "loop"
    /\ instruction_count' = instruction_count + 1 \/ (~halted /\ halted')
StepExecutes ==
    /\ run_pc' = "idle" /\ calls' = calls + 1 /\ ret'.op = "single_step"
    /\ ret'.msg \in {"Instruction executed", "CPU halted"}

\* run_program is about to fetch from an address that holds a breakpoint
FetchAtBreakpoint ==
    run_pc = "loop" /\ run_program_continues /\ (pc % 256) \in breakpoints

\* C13: breakpoints stop before execution -- run and single_step never
\* execute an instruction fetched from an address in the breakpoint set, and
\* when run is about to fetch from such an address it returns the breakpoint
\* outcome naming PC with running false and registers, memory and devices
\* as they were.
C13_BreakpointBeforeExecution ==
    [][/\ RunExecutes \/ StepExecutes => (pc % 256) \notin breakpoints
       /\ FetchAtBreakpoint =>
              /\ ret' = Returned("run_program", FALSE,
                                  "Breakpoint at address", pc)
              /\ run_pc' = "idle"
              /\ St' = [St EXCEPT !.running = FALSE]]_vars

\* this step is the return of run_program
RunReturns == run_pc = "loop" /\ run_pc' = "idle"

\* the instructions the returning run_program has executed: those it
\* counted, and the halting one it does not count
Executed == instruction_count' + (IF ~halted /\ halted' THEN 1 ELSE 0)

\* C14: run returns after executing at most max_steps instructions; when it
\* returns the max-steps diagnostic exactly max_steps instructions were
\* executed, running is false and the CPU is not halted.
C14_RunWithinBudget ==
    [][RunReturns =>
         /\ Executed <= max_instructions
         /\ ret'.msg = "Maximum instruction limit reached" =>
                /\ Executed = max_instructions
                /\ ret'.n = max_instructions
                /\ ~running'
                /\ ~halted']_vars

\* run_program has returned the breakpoint outcome at PC and the next call
\* (single_step, or run_program with a budget) is about to fetch
Paused ==
    /\ ret.op = "run_program" /\ ret.msg = "Breakpoint at address"
    /\ ret.n = pc /\ instruction_count = 0

\* C15: a breakpoint stop is a resumable pause -- after run has returned
\* the breakpoint outcome at b, the next single_step, and the next run with
\* a budget, executes the instruction at b.
C15_BreakpointResumes ==
    [][Paused =>
         /\ (run_pc = "idle" /\ run_pc' = "idle" /\ calls' = calls + 1)
                => StepExecutes
         /\ (run_pc = "loop" /\ max_instructions > 0) => RunExecutes]_vars

\* this step is a load_assembly_program call for which the assembler has
\* reported at least one error
LoadReportsErrors ==
    /\ run_pc' = "idle" /\ calls' = calls + 1
    /\ ret'.op = "load_assembly_program"
    /\ errors' # <<>>

\* C16: load is atomic on error -- when the assembler reports at least one
\* error load_assembly_program returns failure and every memory cell, PC,
\* the other registers and the flags (and the devices and breakpoints) are
\* as they were before the call; only the assembler's own labels and errors
\* change.
C16_LoadAtomicOnError ==
    [][LoadReportsErrors =>
         /\ ~ret'.ok
         /\ memory_banks' = memory_banks
         /\ pc' = pc
         /\ St' = [St EXCEPT !.labels = labels', !.errors = errors']]_vars

\* HLT / HALT has been refused with one error on line 2 while the bank
\* holds the binary program loaded at 300 before and PC is still 300
C16_Witness ==
    /\ ret = Returned("load_assembly_program", FALSE, "Assembly errors", 1)
    /\ source_code = SourceUnknown
    /\ Len(errors) = 1 /\ errors[1].line = 2
    /\ pc = 300 /\ memory_banks[0][44] = 196 /\ memory_banks[0][47] = 198

\* this step is a load_assembly_program call that has loaded the program
LoadSucceeds ==
    /\ run_pc' = "idle" /\ calls' = calls + 1
    /\ ret'.op = "load_assembly_program" /\ ret'.ok

\* the addresses at which the source of this load emitted a word: the keys
\* of the assembler's sparse_code, offset by the start address (which the
\* load leaves in PC)
Emitted ==
    {(pc' + k) % 256 : k \in DOMAIN assemble(source_code').sparse_code}

\* C17: loading preserves unmentioned cells -- a successful
\* load_assembly_program writes only the addresses at which the source
\* emitted a word; the gap cells between ORG regions and the cells beyond
\* the last emitted address keep their values, as do the other banks.
C17_LoadPreservesUnmentioned ==
    [][LoadSucceeds =>
         /\ \A a \in Addrs \ Emitted :
                memory_banks'[current_bank][a] = memory_banks[current_bank][a]
         /\ \A b \in Banks \ {current_bank} :
                memory_banks'[b] = memory_banks[b]]_vars

\* the lines the assembler walks over, and those of them that define a
\* label (numbered from 1)
Lines == _preprocess(source_code)
LabelLines ==
    {i \in 1..Len(Lines) :
        /\ ~startswith(Lines[i], <<"#">>) /\ ~is_org(Lines[i])
        /\ is_label(Lines[i])}
LabelOf(i) == upper(strip(before(Lines[i], ":")))

\* the (line, address) pairs at which pass 2 stored a word, and the first
\* of them at or after line i
Stored == assemble(source_code).stored
StoredFrom(i) == {k \in 1..Len(Stored) : Stored[k].line >= i}
FirstStoredFrom(i) == Stored[Min(StoredFrom(i))]

\* a word follows the label of line i with no ORG line and no later
\* definition of the same label in between or after
Labelled(i) ==
    /\ StoredFrom(i) # {}
    /\ \A j \in i..FirstStoredFrom(i).line : ~is_org(Lines[j])
    /\ \A j \in LabelLines : j > i => LabelOf(j) # LabelOf(i)

\* C18: two-pass cursor agreement -- in every assembled program the address
\* pass 1 records for a label equals the address at which pass 2 stores the
\* first word following that label.
C18_CursorAgreement ==
    ret.op = "assemble" /\ ret.ok =>
        \A i \in LabelLines :
            Labelled(i) => labels[LabelOf(i)] = FirstStoredFrom(i).address

\* assemble has been called on source_code, and returned or raised
Assembled == ret.op = "assemble"

\* C19: assembler errors are collected, never thrown -- assemble returns
\* its (machine code, error list) pair for every source text, and every
\* faulty line (unknown mnemonic, wrong arity, malformed or out-of-range
\* literal, undefined label, ORG beyond memory or without address) has an
\* entry in the error list that carries its number among the non-blank
\* lines.
C19_ErrorsCollected ==
    Assembled =>
        /\ ret.ok
        /\ \A i \in 1..Len(Lines) :
               Lines[i] \in FaultyLines =>
                   \E k \in 1..Len(errors) : errors[k].line = i

\* the word assembled from source_code has been disassembled
Disassembled == ret.op = "disassemble_instruction"

\* C20: assemble / disassemble round trip -- for every operand-free
\* mnemonic and for every OP n with OP in JMP, STR, ADD and n in 0..31, the
\* text assembles without error to one word at address 0 and disassembling
\* that word yields the text again.
C20_RoundTrip ==
    Disassembled /\ source_code \in OperandFree \cup DirectReferences =>
        /\ errors = <<>>
        /\ Len(machine_code) = 1
        /\ disasm = source_code

\* ADD 31 has been assembled to 0x9F and disassembled to ADD 31
C20_Witness ==
    /\ Disassembled
    /\ source_code = <<"A", "D", "D", " ", "3", "1">>
    /\ machine_code = <<159>>
    /\ disasm = <<"A", "D", "D", " ", "3", "1">>

\* -- C21 ------------------------------------------------------------------
Analyzed == ret.op = "analyze_program"

NonZeroCells == {addr \in Addrs : memory_banks[current_bank][addr] # 0}

\* C21: analyze_program reports "no program" exactly when every cell of the
\* bank is zero; otherwise the program ends at the highest address holding a
\* nonzero word and every address from 0 to that end is listed
C21_AnalysisBounds ==
    Analyzed =>
        /\ ~analysis.found <=> NonZeroCells = {}
        /\ analysis.found =>
               /\ analysis.size = Max(NonZeroCells) + 1
               /\ analysis.listed = [i \in 1..analysis.size |-> i - 1]

\* a program whose only nonzero word is at address 0 is reported as missing
C21_OnlyCellZeroMissed ==
    /\ Analyzed
    /\ NonZeroCells = {0}
    /\ ~analysis.found

\* -- C22 ------------------------------------------------------------------
\* C22: in every state reached by queue_input (of a word or of a string, the
\* empty string included), input and reset, the flag of the console-input
\* device is true exactly when its queue is nonempty
C22_ConsoleInputFlag == flag[1] <=> (input_queue # <<>>)

\* after queue_input("") the flag is raised over an empty queue
C22_EmptyStringRaisesFlag ==
    /\ ret.op = "queue_input"
    /\ flag[1]
    /\ input_queue = <<>>

\* after a reset the flag is lowered over a queue that still holds words
C22_ResetLeavesQueue ==
    /\ ret.op = "reset_all_devices"
    /\ ~flag[1]
    /\ input_queue # <<>>

\* -- C23 ------------------------------------------------------------------
\* C23: in every reachable state (from construction, after any outputs and
\* after any reset) the flags of the console-output device (2) and of the
\* switches device (3) are true, so that SFG 2 and SFG 3 always skip
C23_PermanentFlags == check_flag(St, 2) /\ check_flag(St, 3)

\* the console-output flag is false in the constructed machine
C23_OutputFlagFalseAtStart ==
    /\ calls = 0
    /\ ~check_flag(St, 2)
    /\ check_flag(St, 3)

\* the switches flag is false after a reset
C23_SwitchFlagFalseAfterReset ==
    /\ ret.op = "reset_all_devices"
    /\ ~check_flag(St, 3)

\* -- C24 ------------------------------------------------------------------
\* C24: in every state reached by facade set_data_switches, reset, load and
\* run, the word that input on device 3 returns is the CPU's data_switches
C24_SwitchesMirrorPanel == io_input_value(St, 3) = data_switches

\* after set_data_switches and reset the device still returns the old word
C24_ResetLeavesSwitchDevice ==
    /\ ret.op = "reset"
    /\ data_switches = 0
    /\ io_input_value(St, 3) # 0

\* -- C25 ------------------------------------------------------------------
TapeLoaded == ret'.op = "load_tape" /\ calls' = calls + 1

TapeRead ==
    ret'.op = "input_data" /\ ret'.msg = "Paper Tape" /\ calls' = calls + 1

\* C25: load_tape puts the reader at the start of the sequence, every input
\* returns the next unread word and then 0 once the words are used up, and
\* in every state reached by load_tape, input and reset the device flag is
\* true exactly when unread words remain
C25_PaperTapeReader ==
    [][/\ TapeLoaded => read_position' = 0 /\ Len(tape_data') = ret'.n
       /\ TapeRead =>
              /\ tape_data' = tape_data
              /\ IF read_position < Len(tape_data)
                 THEN /\ ret'.n = tape_data[read_position + 1]
                      /\ read_position' = read_position + 1
                 ELSE /\ ret'.n = 0
                      /\ read_position' = read_position
       /\ flag'[5] <=> (read_position' < Len(tape_data'))]_vars

\* after load_tape and reset the flag is false over unread words
C25_ResetLowersTapeFlag ==
    /\ ret.op = "reset_all_devices"
    /\ ~flag[5]
    /\ read_position < Len(tape_data)

\* the tape is read to its end and the next input returns 0
C25_ReadPastEnd ==
    /\ ret.op = "input_data" /\ ret.msg = "Paper Tape" /\ ret.n = 0
    /\ read_position = Len(tape_data)
    /\ tape_data # <<>>
    /\ ~flag[5]

\* -- C26 ------------------------------------------------------------------
ExecutesOUT2 == Executes /\ Fetched = 242

\* C26: the console-output buffer is append-only over a run of any length --
\* every executed OUT 2 appends the accumulator's word after the words
\* already there, and no other instruction changes the buffer, so that no
\* word is dropped, reordered or duplicated
C26_OutputRetained ==
    [][IF ExecutesOUT2
       THEN output_buffer' = Append(output_buffer, ac % 256)
       ELSE output_buffer' = output_buffer]_vars

\* the buffer holds max_buffer_size words and does not start with the word
\* the first OUT 2 of the run wrote
C26_OldestWordDropped ==
    /\ ret.op = "execute_instruction"
    /\ Len(output_buffer) = max_buffer_size
    /\ memory_banks[0][0] = 132
    /\ ac = 252
    /\ output_buffer[1] = 71
    /\ output_buffer[max_buffer_size] = 252

\* a buffer of fewer than max_buffer_size words that the run has filled in
\* execution order
C26_FilledInOrder ==
    /\ ret.op = "execute_instruction"
    /\ Len(output_buffer) = 3
    /\ output_buffer = <<68, 71, 74>>

\* -- C30 ------------------------------------------------------------------
ResetReturns == ret'.op = "reset" /\ run_pc' = "idle" /\ calls' = calls + 1

\* C30: from any reachable state, after the facade's reset AC, PC, IR, MAR,
\* MDR, MSR and data_switches are 0, overflow, halted and running are
\* false, run_stop is STOP, every cell of every bank is 0, the current bank
\* is 0 and the breakpoint set is empty
C30_ResetZeroState ==
    [][ResetReturns =>
          /\ ac' = 0 /\ pc' = 0 /\ ir' = 0 /\ mar' = 0 /\ mdr' = 0
          /\ msr' = 0 /\ data_switches' = 0
          /\ ~overflow' /\ ~halted' /\ ~running' /\ ~run_stop'
          /\ \A b \in Banks : \A a \in Addrs : memory_banks'[b][a] = 0
          /\ current_bank' = 0
          /\ breakpoints' = {}]_vars

\* a reset of a machine whose switches had been set and that had run a
\* program writing to memory and selecting another bank
C30_Witness ==
    /\ ret.op = "reset" /\ run_pc = "idle" /\ calls = MaxCalls
    /\ switch_value # 0
    /\ data_switches = 0
    /\ pc = 0 /\ ~running /\ ~halted
    /\ \A b \in Banks : \A a \in Addrs : memory_banks[b][a] = 0

\* -- C28 ------------------------------------------------------------------
\* C28: a stop request made by another thread at any point after the run was
\* started makes the run return -- at most one instruction is executed
\* after the request, and the run returns an outcome that is not an error
C28_CooperativeCancel ==
    \A w \in Workers :
        workers[w].requested =>
            /\ workers[w].after <= 1
            /\ workers[w].at = "none" => workers[w].result.ok

\* the request is made before the run has assigned running = True: the
\* assignment overwrites it and the loop goes on
C28_RequestLost ==
    \E w \in Workers :
        /\ workers[w].requested
        /\ workers[w].after = 2
        /\ running

\* the request is honoured: the run returns "Program stopped" after the
\* instruction in flight
C28_RequestHonoured ==
    \E w \in Workers :
        /\ workers[w].requested
        /\ workers[w].at = "none"
        /\ workers[w].after = 1
        /\ workers[w].result.msg = "Program stopped"

\* -- C27 ------------------------------------------------------------------
PanelPress ==
    /\ ret'.op \in {"press_load_address", "press_load_data", "press_display"}
    /\ calls' = calls + 1

\* C27: in every reachable state with running = true, LOAD ADDRESS, LOAD DATA
\* and DISPLAY leave PC, IR and memory unchanged
C27_PanelOnlyWhenStopped ==
    [][(running /\ PanelPress) =>
          /\ pc' = pc
          /\ ir' = ir
          /\ memory_banks' = memory_banks]_vars

\* LOAD DATA has written the switches into memory and moved PC while a run
\* started by CONTINUE is in progress
C27_LoadDataWhileRunning ==
    /\ ret.op = "press_load_data"
    /\ running /\ ~run_stop
    /\ ir = data_switches
    /\ \E w \in Workers : workers[w].at \in {"test", "break", "fetch", "exec"}

\* -- C29 ------------------------------------------------------------------
\* the threads that are between the fetch and the execution of an
\* instruction; 0 is the main thread
Executing ==
    {w \in Workers : workers[w].at = "exec"}
        \cup (IF main_at = "exec" THEN {0} ELSE {})

\* the threads that are inside run_program
InRun == {w \in Workers :
              workers[w].at \in {"test", "break", "fetch", "exec", "end"}}

\* C29: the GUI serializes its calls into the facade -- under any
\* interleaving of its button presses at most one thread is executing
\* instructions at any time
C29_OneExecutor == Cardinality(Executing) <= 1

\* STEP is pressed while the run_program thread is in the middle of an
\* instruction
C29_StepDuringRun ==
    /\ main_at = "exec"
    /\ \E w \in Workers : workers[w].at = "exec"

\* RESET while a run is in progress, then START: two threads in run_program
C29_TwoRuns == Cardinality(InRun) = 2

\* -- C31 ------------------------------------------------------------------
\* the counting loop that stops at k has been loaded into the fresh machine
CountLoaded(k) ==
    /\ source_code = CountSource(k)
    /\ ret.op = "load_assembly_program" /\ ret.ok
    /\ calls = 0

\* its run has returned: 2 instructions before the loop, 9 in each of the
\* k - 1 passes that jump back and 7 in the last one
CountDone(k) ==
    /\ source_code = CountSource(k)
    /\ calls = 1 /\ run_pc = "idle"
    /\ ret = Returned("run_program", TRUE, "Program completed", 9 * k)
    /\ halted /\ ~running
    /\ memory_banks[0][20] = k
    /\ display_value = k

\* C31: the counting loop of the test suite (k = 3), loaded and run from
\* reset, halts within the budget after exactly k passes through the loop
\* body with memory[20] = k, and run reports success
C31_CountLoopTerminates ==
    \A k \in CountTargets : CountLoaded(k) ~> CountDone(k)

C31_Witness == CountDone(3) /\ ac = 0 /\ overflow

\* -- C35 ------------------------------------------------------------------
\* the first iteration of a run called on the program just loaded
FirstIteration ==
    /\ run_pc = "loop" /\ instruction_count = 0
    /\ ret.op = "load_assembly_program" /\ ret.ok

\* C35: after a successful load_assembly_program in any reachable state --
\* also after an earlier program has run to HLT and no reset was made -- the
\* run that follows starts at the load address and executes the first
\* instruction of the program just loaded
C35_LoadedProgramRuns ==
    [][FirstIteration =>
          /\ mar' = 0
          /\ ir' = machine_code[1]
          /\ instruction_count' = 1]_vars

\* the run of the second program returns at once: the CPU is still halted
C35_StillHalted ==
    /\ calls = 2 /\ run_pc = "idle"
    /\ ret = Returned("run_program", TRUE, "Program completed", 0)
    /\ halted /\ pc = 0
    /\ memory_banks[0][20] = 0

\* after a run that ended on the budget the second program runs
C35_RunsAfterBudget ==
    /\ calls = 2 /\ run_pc = "idle"
    /\ source_code = CountSource(3)
    /\ ret = Returned("run_program", TRUE, "Program completed", 27)

\* -- C39 ------------------------------------------------------------------
SimpleLoaded == source_code = SimpleLoopSource

\* the instruction at address a is executed by the run
RunExecutesAt(a) ==
    run_pc = "loop" /\ pc = a /\ instruction_count' = instruction_count + 1

\* C39: the 'Simple Loop' example, loaded and run from reset, counts from 1
\* to 5 -- every pass stores a counter one higher than the pass before --
\* leaves the loop, writes 5 to the LED display and halts within the
\* default budget
C39_SimpleLoopTerminates ==
    [][SimpleLoaded =>
          /\ RunExecutesAt(3) =>
                 memory_banks'[0][20] = memory_banks[0][20] + 1
          /\ RunReturns =>
                 /\ ret'.ok /\ halted'
                 /\ memory_banks'[0][20] = 5
                 /\ display_value' = 5]_vars

\* the run ends on the budget with the counter at 1 and nothing displayed
C39_BudgetExhausted ==
    /\ SimpleLoaded
    /\ ret = Returned("run_program", FALSE,
                      "Maximum instruction limit reached",
                      default_max_instructions)
    /\ ~halted
    /\ memory_banks[0][20] = 1
    /\ display_value = 0

\* -- C32 ------------------------------------------------------------------
\* the first CLR has been executed and the second one is the next instruction
SecondClr ==
    /\ ret.op = "execute_instruction" /\ ir = 192
    /\ memory_banks[current_bank][pc] = 192

\* C32: for every starting state, executing CLR twice in succession leaves a
\* state identical to the state after executing CLR once.
C32_ClrTwiceIdentical ==
    [][SecondClr => St' = St]_vars

\* C32, amended: executing CLR a second time changes nothing but the two
\* registers of the fetch, PC (one higher) and MAR (the address of the second
\* CLR); the CLR operation itself, applied twice, gives the state it gives
\* applied once
C32_ClrIdempotent ==
    [][/\ _clr(_clr(St)) = _clr(St)
       /\ SecondClr =>
              St' = [St EXCEPT !.pc = And(pc + 1, 255), !.mar = pc]]_vars

\* both CLR words at 30 and 31 have been executed
C32_Witness ==
    /\ ret.op = "execute_instruction" /\ ~halted
    /\ pc = 32 /\ mar = 31 /\ ir = 192
    /\ ac = 0 /\ ~overflow

\* -- C33 ------------------------------------------------------------------
\* a step of single_step, press_start_step or run_program (its call, an
\* iteration of its loop, its return)
ExecutorStep ==
    \/ /\ calls' = calls + 1
       /\ ret'.op \in {"single_step", "press_start_step"}
    \/ run_pc = "idle" /\ run_pc' = "loop"
    \/ run_pc = "loop"

ResetStep == calls' = calls + 1 /\ ret'.op = "reset"

DeviceState ==
    <<flag, input_queue, output_buffer, switch_value, display_value,
      tape_data, read_position, punch_data>>

\* C33: HLT sets halted and clears running, and from then until reset no
\* instruction is executed by step, single_step, press_start_step or run: AC,
\* PC, IR, MAR, MDR, overflow, memory and the devices stay unchanged and
\* halted stays true
C33_HaltAbsorbing ==
    [][/\ (~halted /\ read(St, pc) = 198) =>
              /\ execute_instruction(St).halted
              /\ ~execute_instruction(St).running
       /\ halted =>
              /\ execute_instruction(St) = St
              /\ ExecutorStep =>
                     UNCHANGED <<ac, pc, ir, mar, mdr, overflow,
                                 memory_banks, DeviceState>>
              /\ ~ResetStep => halted']_vars

\* a run called on the halted CPU has returned without an instruction
C33_Witness ==
    /\ halted /\ ir = 198
    /\ ret = Returned("run_program", TRUE, "Program completed", 0)

\* -- C36 ------------------------------------------------------------------
\* C36: in every state reached by run, single_step, press_start_step,
\* set_run_stop, load and reset -- in particular whenever run returns, from
\* any starting state, an already halted CPU included -- running is false
\* whenever halted is true
C36_NeverHaltedAndRunning ==
    run_pc = "idle" => ~(halted /\ running)

\* run_program has returned from a call made on the halted CPU
C36_RunReturnsRunning ==
    /\ run_pc = "idle" /\ halted /\ running
    /\ ret = Returned("run_program", TRUE, "Program completed", 0)

\* -- C34 ------------------------------------------------------------------
EntryAddrs == {0, 30, 254, 255}
EntryWords == {<<>>, <<85>>, <<85, 0>>, <<255, 1, 198>>}

\* 256 words, every cell of the bank written once
FullBank == [i \in 1..256 |-> (7 * i + 3) % 256]

\* e is the state after the entry of ws from a, d what DISPLAY then showed
EntryShown(a, ws, e, d) ==
    /\ \A i \in 1..Len(ws) : read(e, (a + i - 1) % 256) = ws[i]
    /\ e.pc = (a + Len(ws)) % 256
    /\ d.shown = ws
    /\ d.state.memory_banks = e.memory_banks

EntryDisplayed(a, ws, e) ==
    EntryShown(a, ws, e, DisplayPresses(LoadAddressAt(e, a), Len(ws)))

RoundTrips(s, a, ws) ==
    EntryDisplayed(a, ws, LoadDataWords(LoadAddressAt(s, a), ws))

\* C34: in STOP mode, for every start address a and all words w1..wn
\* (n <= 256), LOAD ADDRESS(a) and n LOAD DATA presses with the switches at
\* wi store wi at (a + i - 1) mod 256 and leave PC = (a + n) mod 256; LOAD
\* ADDRESS(a) and n DISPLAY presses then show IR = w1, ..., wn in order and
\* leave memory as it is
C34_PanelEntryRoundTrips ==
    ~run_stop =>
        /\ \A a \in EntryAddrs, ws \in EntryWords : RoundTrips(St, a, ws)
        /\ calls = 0 => \A a \in {0, 200} : RoundTrips(St, a, FullBank)

\* 85 was entered at 30 and DISPLAY has shown it
C34_Witness ==
    /\ ~run_stop /\ ret.op = "press_display"
    /\ memory_banks[0][30] = 85 /\ ir = 85 /\ pc = 31

\* -- C37 ------------------------------------------------------------------
\* C37: in every state reached by OUT 0 (with any AC), set_num_banks and
\* reset, the CPU's MSR equals the index of the memory's current bank
C37_MsrIsCurrentBank == msr = current_bank

\* OUT 0 has asked for a bank that is not active
C37_MsrInactiveBank ==
    /\ ret.op = "execute_instruction" /\ ir = 240
    /\ msr = And(ac, 15) /\ msr >= num_banks
    /\ current_bank # msr

\* -- C38 ------------------------------------------------------------------
\* C38: in every state reached by set_bank, OUT 0, set_num_banks (raising or
\* lowering the number of banks) and reset, current_bank < num_banks
C38_CurrentBankActive == current_bank < num_banks

\* the number of banks was lowered below the selected bank
C38_BankLeftInactive ==
    /\ ret.op = "set_num_banks"
    /\ current_bank >= num_banks

====
